---- MODULE Spec2Model ----
(***************************************************************************)
(* Model of the fog-gt coalition-formation simulator:                      *)
(*   - simulator_t (simulator.hpp): event queue, replication loop;         *)
(*   - experiment_t (experiment.hpp): event handlers, analyze_coalitions;  *)
(*   - nash_stable_partition_selector_t (nash_stable.hpp);                 *)
(*   - lexicographic_subset / lexicographic_partition (dcs/algorithm).     *)
(*                                                                         *)
(* Numbers.  Simulated times are integers.  Every money amount (revenue,   *)
(* cost, coalition value, payoff) is a pair <<m, e>> standing for the real *)
(* number  (m + e * DBL_MIN) / Den : m counts units of 1/Den, so that the  *)
(* Shapley weights s!(n-s-1)!/n! stay integral, and e counts multiples of  *)
(* DBL_MIN, the magnitude of the value analyze_coalitions stores for an    *)
(* unsolved coalition.  DBL_MIN is smaller than any tolerance window, so   *)
(* pairs are ordered lexicographically.  A NaN is the empty tuple.         *)
(***************************************************************************)
EXTENDS Integers, Sequences, FiniteSets, TLC

(***************************************************************************)
(* Bounds of the explored inputs.                                          *)
(***************************************************************************)
MaxFps == 3            \* scenario num_fps ranges over 1..MaxFps
MaxInfeasible == 1     \* coalitions for which the optimizer fails
MaxCostly == 1         \* coalitions with a non-zero optimizer objective
MaxObjective == 3      \* largest optimizer objective value
MaxRevenue == 1        \* largest per-service revenue
MaxCoalitionCost == 2  \* largest per-FP coalition cost
MaxSvcs == 2           \* largest number of services in a timing scenario
MaxDuration == 2       \* largest burst duration
MaxInterval == 2       \* largest coalition formation interval
MaxRepLen == 2         \* largest replication duration
MaxNumRep == 2         \* largest number of replications
MaxWallClock == 1      \* largest calendar time std::time returns
MaxEvents == 16        \* most events a replication may schedule
MaxElems == 4          \* largest ground set of an iterator exercised on its own

(***************************************************************************)
(* Arithmetic helpers.                                                     *)
(***************************************************************************)
RECURSIVE Factorial(_)
Factorial(k) == IF k <= 1 THEN 1 ELSE k * Factorial(k - 1)

RECURSIVE Pow2(_)
Pow2(k) == IF k = 0 THEN 1 ELSE 2 * Pow2(k - 1)

Abs(x) == IF x < 0 THEN -x ELSE x

Max2(x, y) == IF x < y THEN y ELSE x

Den == Factorial(MaxFps)

NaN == << >>

Fixed(k) == <<k * Den, 0>>

Zero == <<0, 0>>

Add(x, y) == <<x[1] + y[1], x[2] + y[2]>>

Sub(x, y) == <<x[1] - y[1], x[2] - y[2]>>

Mul(k, x) == <<k * x[1], k * x[2]>>

Less(x, y) == x[1] < y[1] \/ (x[1] = y[1] /\ x[2] < y[2])

LessEq(x, y) == x = y \/ Less(x, y)

\* -std::numeric_limits<RealT>::min()
NegDblMin == <<0, -Den>>

\* float_traits<T>::tolerance = 100 * epsilon, with epsilon = 2^-52 = 1/(EpsRoot*EpsRoot)
ToleranceFactor == 100

EpsRoot == 67108864

\* floor(a * tolerance) for an integer a >= 0
TolFloor(a) == ((a * ToleranceFactor) \div EpsRoot) \div EpsRoot

\* detail::definitely_greater(x, y, tol) on finite operands
DefinitelyGreater(x, y) ==
    IF LessEq(x, y) THEN FALSE
    ELSE IF x[1] # y[1]
         THEN (x[1] - y[1]) > TolFloor(Max2(Abs(x[1]), Abs(y[1])))
         ELSE IF x[1] # 0
              THEN FALSE
              ELSE (x[2] - y[2]) > TolFloor(Max2(Abs(x[2]), Abs(y[2])))

(***************************************************************************)
(* Generic helpers on sets and sequences.                                  *)
(***************************************************************************)
RECURSIVE SumSeq(_)
SumSeq(s) == IF s = << >> THEN Zero ELSE Add(Head(s), SumSeq(Tail(s)))

RECURSIVE SortedSeq(_)
SortedSeq(S) ==
    IF S = {} THEN << >>
    ELSE LET x == CHOOSE y \in S : \A z \in S : y <= z
         IN  <<x>> \o SortedSeq(S \ {x})

Range(s) == {s[i] : i \in 1..Len(s)}

(***************************************************************************)
(* gtpack coalition identifiers: the bit mask of the member players.       *)
(***************************************************************************)
PlayersOf(cid) == {p \in 0..(MaxFps - 1) : (cid \div Pow2(p)) % 2 = 1}

RECURSIVE MakeCoalitionId(_)
MakeCoalitionId(S) ==
    IF S = {} THEN 0
    ELSE LET p == CHOOSE q \in S : \A r \in S : q <= r
         IN  Pow2(p) + MakeCoalitionId(S \ {p})

(***************************************************************************)
(* dcs::algorithm::lexicographic_subset                                    *)
(***************************************************************************)
\* dynamic_bitset::count
RECURSIVE BitCount(_)
BitCount(bits) == IF bits = 0 THEN 0 ELSE (bits % 2) + BitCount(bits \div 2)

SubsetCtor(n, empty_set) ==
    [n_ |-> n, empty_set_ |-> empty_set,
     bits_ |-> IF empty_set THEN 0 ELSE 1,
     has_prev_ |-> FALSE, has_next_ |-> n > 0]

\* an operator++ that tests the mask it moves to, not the one it leaves
SubsetIncStoppingEarly(s) ==
    LET hn   == BitCount((s.bits_ + 1) % Pow2(s.n_)) < s.n_
        bits == IF hn THEN (s.bits_ + 1) % Pow2(s.n_) ELSE s.bits_
    IN  [s EXCEPT !.has_next_ = hn,
                  !.bits_ = bits,
                  !.has_prev_ = bits > (IF s.empty_set_ THEN 0 ELSE 1)]

\* operator++ (called with has_next_ true)
SubsetInc(s) ==
    LET hn   == BitCount(s.bits_) < s.n_
        bits == IF hn THEN (s.bits_ + 1) % Pow2(s.n_) ELSE s.bits_
    IN  [s EXCEPT !.has_next_ = hn,
                  !.bits_ = bits,
                  !.has_prev_ = bits > (IF s.empty_set_ THEN 0 ELSE 1)]

\* operator-- (called with has_prev_ true)
SubsetDec(s) ==
    LET hp   == s.bits_ > (IF s.empty_set_ THEN 0 ELSE 1)
        bits == IF hp THEN s.bits_ - 1 ELSE s.bits_
    IN  [s EXCEPT !.has_prev_ = hp,
                  !.bits_ = bits,
                  !.has_next_ = bits < s.n_]

\* operator()(v): the elements of v (0-based function) whose bit is set
SubsetApply(s, v) ==
    LET pos == SortedSeq({p \in 0..(s.n_ - 1) : (s.bits_ \div Pow2(p)) % 2 = 1})
    IN  [i \in 1..Len(pos) |-> v[pos[i]]]

\* a next_subset that leaves the iterator exhausted
NextSubsetOnce(v, s) ==
    [subs |-> SubsetApply(s, v), subset |-> [SubsetInc(s) EXCEPT !.has_next_ = FALSE]]

NextSubset(v, s) == [subs |-> SubsetApply(s, v), subset |-> SubsetInc(s)]

(***************************************************************************)
(* dcs::algorithm::lexicographic_partition                                 *)
(***************************************************************************)
PartitionCtor(n, first) ==
    [n_ |-> n,
     kappa_ |-> [i \in 0..(n - 1) |-> IF first THEN 0 ELSE i],
     M_ |-> [i \in 0..(n - 1) |-> IF first THEN 0 ELSE i],
     has_prev_ |-> FALSE, has_next_ |-> TRUE]

\* an operator++ that leaves the tail of kappa_ as it is
PartitionIncWithoutReset(p) ==
    LET n    == p.n_
        hn   == (p.M_[n - 1] + 1) < n
        cand == {i \in 1..(n - 1) : p.kappa_[i] <= p.M_[i - 1]}
    IN  IF cand = {} THEN [p EXCEPT !.has_next_ = hn]
        ELSE LET i       == CHOOSE j \in cand : \A k \in cand : k <= j
                 ki      == p.kappa_[i] + 1
                 new_max == Max2(p.M_[i], ki)
             IN  [p EXCEPT !.has_next_ = hn,
                           !.has_prev_ = TRUE,
                           !.kappa_ = [j \in 0..(n - 1) |-> IF j = i THEN ki ELSE p.kappa_[j]],
                           !.M_ = [j \in 0..(n - 1) |->
                                          IF j < i THEN p.M_[j] ELSE Max2(new_max, p.M_[j])]]

\* operator++ (called with has_next_ true)
PartitionInc(p) ==
    LET n    == p.n_
        hn   == (p.M_[n - 1] + 1) < n
        cand == {i \in 1..(n - 1) : p.kappa_[i] <= p.M_[i - 1]}
    IN  IF cand = {} THEN [p EXCEPT !.has_next_ = hn]
        ELSE LET i       == CHOOSE j \in cand : \A k \in cand : k <= j
                 ki      == p.kappa_[i] + 1
                 new_max == Max2(p.M_[i], ki)
             IN  [p EXCEPT !.has_next_ = hn,
                           !.has_prev_ = TRUE,
                           !.kappa_ = [j \in 0..(n - 1) |->
                                          IF j < i THEN p.kappa_[j]
                                          ELSE IF j = i THEN ki ELSE 0],
                           !.M_ = [j \in 0..(n - 1) |->
                                          IF j < i THEN p.M_[j] ELSE new_max]]

\* an operator-- that forgets to bring M_ up to date
PartitionDecKeepingM(p) ==
    LET n    == p.n_
        hp   == (p.M_[n - 1] + 1) > 1
        cand == {i \in 1..(n - 1) : p.kappa_[i] > 0}
    IN  IF cand = {} THEN [p EXCEPT !.has_prev_ = hp]
        ELSE LET i   == CHOOSE j \in cand : \A k \in cand : k <= j
                 m_i == p.M_[i - 1]
             IN  [p EXCEPT !.has_prev_ = hp,
                           !.has_next_ = TRUE,
                           !.kappa_ = [j \in 0..(n - 1) |->
                                          IF j < i THEN p.kappa_[j]
                                          ELSE IF j = i THEN p.kappa_[i] - 1
                                          ELSE m_i + j - i]]

\* operator-- (called with has_prev_ true)
PartitionDec(p) ==
    LET n    == p.n_
        hp   == (p.M_[n - 1] + 1) > 1
        cand == {i \in 1..(n - 1) : p.kappa_[i] > 0}
    IN  IF cand = {} THEN [p EXCEPT !.has_prev_ = hp]
        ELSE LET i   == CHOOSE j \in cand : \A k \in cand : k <= j
                 m_i == p.M_[i - 1]
             IN  [p EXCEPT !.has_prev_ = hp,
                           !.has_next_ = TRUE,
                           !.kappa_ = [j \in 0..(n - 1) |->
                                          IF j < i THEN p.kappa_[j]
                                          ELSE IF j = i THEN p.kappa_[i] - 1
                                          ELSE m_i + j - i],
                           !.M_ = [j \in 0..(n - 1) |->
                                          IF j < i THEN p.M_[j]
                                          ELSE IF j = i THEN m_i
                                          ELSE m_i + j - i]]

\* integrity_check: TRUE when no domain_error is thrown
PartitionIntegrityCheck(p) ==
    \A i \in 0..(p.n_ - 1) :
        p.M_[i] = CHOOSE m \in {p.kappa_[j] : j \in 0..i} : \A j \in 0..i : p.kappa_[j] <= m

PartitionNumSubsets(p) == p.M_[p.n_ - 1] + 1

\* an operator() whose block k also takes the elements of the blocks before it
PartitionApplyCumulative(p, v) ==
    [k \in 1..PartitionNumSubsets(p) |->
        LET idx == SortedSeq({i \in 0..(p.n_ - 1) : p.kappa_[i] <= k - 1})
        IN  [j \in 1..Len(idx) |-> v[idx[j]]]]

\* operator()(v): block k holds, in increasing index order, the v[i] with kappa_[i] = k
PartitionApply(p, v) ==
    [k \in 1..PartitionNumSubsets(p) |->
        LET idx == SortedSeq({i \in 0..(p.n_ - 1) : p.kappa_[i] = k - 1})
        IN  [j \in 1..Len(idx) |-> v[idx[j]]]]

NextPartition(v, p) ==
    [subs |-> PartitionApply(p, v),
     part |-> IF p.has_next_ THEN PartitionInc(p) ELSE p]

(***************************************************************************)
(* dcs::algorithm::lexicographic_k_partition                               *)
(***************************************************************************)
KPartitionCtor(n, k, first) ==
    LET offset == n - k
        rgs    == [i \in 0..(n - 1) |->
                      IF first THEN (IF i > offset THEN i - offset ELSE 0)
                      ELSE (IF i < k THEN i ELSE k - 1)]
    IN  [n_ |-> n, k_ |-> k, kappa_ |-> rgs, M_ |-> rgs,
         has_prev_ |-> FALSE, has_next_ |-> TRUE]

\* an operator++ that finds no index to increment
KPartitionIncAtTheEnd(p) == [p EXCEPT !.has_next_ = FALSE]

\* operator++ (called with has_next_ true); the second loop runs after the
\* first and overwrites whatever index it reaches
KPartitionInc(p) ==
    LET n    == p.n_
        k    == p.k_
        cand == {i \in 1..(n - 1) : p.kappa_[i] < (k - 1) /\ p.kappa_[i] <= p.M_[i - 1]}
    IN  IF cand = {} THEN [p EXCEPT !.has_next_ = FALSE]
        ELSE LET i       == CHOOSE j \in cand : \A l \in cand : l <= j
                 ki      == p.kappa_[i] + 1
                 new_max == Max2(p.M_[i], ki)
                 last0   == n - (k - new_max)
             IN  [p EXCEPT !.has_next_ = TRUE,
                           !.has_prev_ = TRUE,
                           !.kappa_ = [j \in 0..(n - 1) |->
                                          IF j > last0 THEN k - (n - j)
                                          ELSE IF j > i THEN 0
                                          ELSE IF j = i THEN ki
                                          ELSE p.kappa_[j]],
                           !.M_ = [j \in 0..(n - 1) |->
                                          IF j > last0 THEN k - (n - j)
                                          ELSE IF j >= i THEN new_max
                                          ELSE p.M_[j]]]

\* an operator-- that does not test whether k blocks still fit
KPartitionDecWithoutRoom(p) ==
    LET n    == p.n_
        k    == p.k_
        cand == {i \in 1..(n - 1) : p.kappa_[i] > 0}
    IN  IF cand = {} THEN [p EXCEPT !.has_prev_ = FALSE]
        ELSE LET i   == CHOOSE j \in cand : \A l \in cand : l <= j
                 m_i == p.M_[i - 1]
             IN  [p EXCEPT !.has_next_ = TRUE,
                           !.has_prev_ = TRUE,
                           !.kappa_ = [j \in 0..(n - 1) |->
                                          IF j >= i + (k - m_i) THEN k - 1
                                          ELSE IF j > i THEN m_i + j - i
                                          ELSE IF j = i THEN p.kappa_[i] - 1
                                          ELSE p.kappa_[j]],
                           !.M_ = [j \in 0..(n - 1) |->
                                          IF j >= i + (k - m_i) THEN k - 1
                                          ELSE IF j > i THEN m_i + j - i
                                          ELSE IF j = i THEN m_i
                                          ELSE p.M_[j]]]

\* operator-- (called with has_prev_ true)
KPartitionDec(p) ==
    LET n    == p.n_
        k    == p.k_
        cand == {i \in 1..(n - 1) : p.kappa_[i] > 0 /\ (k - p.M_[i - 1]) <= (n - i)}
    IN  IF cand = {} THEN [p EXCEPT !.has_prev_ = FALSE]
        ELSE LET i   == CHOOSE j \in cand : \A l \in cand : l <= j
                 m_i == p.M_[i - 1]
             IN  [p EXCEPT !.has_next_ = TRUE,
                           !.has_prev_ = TRUE,
                           !.kappa_ = [j \in 0..(n - 1) |->
                                          IF j >= i + (k - m_i) THEN k - 1
                                          ELSE IF j > i THEN m_i + j - i
                                          ELSE IF j = i THEN p.kappa_[i] - 1
                                          ELSE p.kappa_[j]],
                           !.M_ = [j \in 0..(n - 1) |->
                                          IF j >= i + (k - m_i) THEN k - 1
                                          ELSE IF j > i THEN m_i + j - i
                                          ELSE IF j = i THEN m_i
                                          ELSE p.M_[j]]]

\* num_subsets
KPartitionNumSubsets(p) == p.k_

\* integrity_check: TRUE when no domain_error is thrown
KPartitionIntegrityCheck(p) ==
    PartitionIntegrityCheck(p) /\ KPartitionNumSubsets(p) = p.M_[p.n_ - 1] + 1

\* operator()(v): num_subsets() blocks, v[i] pushed to block kappa_[i]
KPartitionApply(p, v) ==
    [b \in 1..KPartitionNumSubsets(p) |->
        LET idx == SortedSeq({i \in 0..(p.n_ - 1) : p.kappa_[i] = b - 1})
        IN  [j \in 1..Len(idx) |-> v[idx[j]]]]

(***************************************************************************)
(* gtpack::shapley_value on the sub-game restricted to coalition cid;      *)
(* game maps the identifiers of the coalitions valued so far to values.    *)
(***************************************************************************)
GameValue(game, cid) == IF cid = 0 THEN Zero ELSE game[cid]

ShapleyValue(game, cid) ==
    LET N == PlayersOf(cid)
        n == Cardinality(N)
        \* the term of sub-coalition t (an identifier) in the payoff of player p
        Term(p, t) ==
            LET T == PlayersOf(t)
            IN  IF T \subseteq N \ {p}
                THEN Mul(Factorial(Cardinality(T)) * Factorial(n - Cardinality(T) - 1),
                         Sub(GameValue(game, t + Pow2(p)), GameValue(game, t)))
                ELSE Zero
        Phi(p) ==
            LET s == SumSeq([i \in 1..cid |-> Term(p, i - 1)])
            IN  <<s[1] \div Factorial(n), s[2] \div Factorial(n)>>
    IN  [p \in N |-> Phi(p)]

(***************************************************************************)
(* State.                                                                  *)
(***************************************************************************)
VARIABLES
    scen,                       \* scenario_t (experiment_t::scen_)
    opts,                       \* options_t (experiment_t::opts_)
    solver,                     \* outcome of optimal_vm_allocation_solver_t, by coalition id
    svc_fps,                    \* experiment_t::svc_fps_
    svc_categories,             \* experiment_t::svc_categories_
    fn_fps,                     \* experiment_t::fn_fps_
    pc,                         \* position in simulator_t::run
    sim_time,                   \* simulator_t::sim_time_
    num_rep,                    \* simulator_t::num_rep_
    max_num_rep,                \* simulator_t::max_num_rep_
    max_rep_len,                \* simulator_t::max_rep_len_
    done,                       \* simulator_t::done_
    evt_queue,                  \* simulator_t::evt_queue_
    num_scheduled,              \* events scheduled so far in the replication
    last_event,                 \* the event fired last in the replication, NoEvent if none
    wkl_next_idx,               \* multistep_workload_generator_t::next_idx_, by service category
    wkl_returned,               \* history: the tuples operator() returned since the
                                \* generator was built, by service category
    rng,                        \* experiment_t::rng_: the numbers drawn from it so far
    rep_svc_wkl_bursts,         \* experiment_t::rep_svc_wkl_bursts_
    burst_history,              \* history: every burst recorded in the replication, by
                                \* service, erased or not
    rep_fn_power_states,        \* experiment_t::rep_fn_power_states_
    rep_fp_coal_profit_stats,   \* samples collected by rep_fp_coal_profit_stats_
    rep_fp_alone_profit_stats,  \* samples collected by rep_fp_alone_profit_stats_
    fp_coal_profit_ci_stats,    \* fp_coal_profit_ci_stats_: done() || unstable(), by FP
    fp_alone_profit_ci_stats,   \* fp_alone_profit_ci_stats_: done() || unstable(), by FP
    trigger,                    \* what the last analyze_coalitions computed
    dat_ofs,                    \* stats_dat_ofs_ and trace_dat_ofs_: "unopened", "open", "closed"
    summary_written,            \* do_finalize_simulation logged the confidence intervals
    exit_code,                  \* what main returned, NotExited while it runs
    iter_test,                  \* class of the iterator exercised on its own ("none" if
                                \* none) and whether that build defines NDEBUG
    iter,                       \* that iterator's members
    iter_call,                  \* the last call made on it and how the call ended
    iter_yielded,               \* what next_subset / next_partition returned so far
    alloc_pc,                   \* position of a by_native_cp call made on its own: "none",
                                \* "called", "returned"
    alloc_problem,              \* the arguments of that call
    alloc_status,               \* solver.getStatus() in that call, "none" before solve()
    alloc_solution              \* its vm_allocation_t solution

sim_vars == <<scen, opts, solver, svc_fps, svc_categories, fn_fps, pc, sim_time, num_rep,
          max_num_rep, max_rep_len, done, evt_queue, num_scheduled, last_event,
          wkl_next_idx, wkl_returned, rng, rep_svc_wkl_bursts, burst_history,
          rep_fn_power_states,
          rep_fp_coal_profit_stats, rep_fp_alone_profit_stats, fp_coal_profit_ci_stats,
          fp_alone_profit_ci_stats, trigger, dat_ofs, summary_written, exit_code>>

iter_vars == <<iter_test, iter, iter_call, iter_yielded>>

alloc_vars == <<alloc_pc, alloc_problem, alloc_status, alloc_solution>>

vars == <<sim_vars, iter_vars, alloc_vars>>

setup_vars == <<scen, opts, solver, svc_fps, svc_categories, fn_fps>>

out_vars == <<dat_ofs, summary_written, exit_code>>

FPs == 0..(scen.num_fps - 1)

NumSvcs == Len(svc_fps)

NumFns == Len(fn_fps)

\* experiment_t::fps_ (std::iota)
Fps == [i \in FPs |-> i]

(***************************************************************************)
(* analyze_coalitions, lines 1560-1604: peak arrival rate of one service   *)
(* over the trigger interval, erasing the bursts that are over.            *)
(***************************************************************************)
EraseAt(s, b) == [i \in 1..(Len(s) - 1) |-> IF i < b THEN s[i] ELSE s[i + 1]]

\* a scan that erases nothing and takes every burst started by stop
ScanBurstsOfTheWholeReplication(bursts, b, max_rate, start, stop) ==
    LET rates == {max_rate} \cup {bursts[i][3] : i \in {j \in 1..Len(bursts) : bursts[j][1] < stop}}
    IN  [bursts |-> bursts, max_rate |-> CHOOSE r \in rates : \A q \in rates : q <= r]

RECURSIVE ScanBursts(_, _, _, _, _)
ScanBursts(bursts, b, max_rate, start, stop) ==
    IF b > Len(bursts) THEN [bursts |-> bursts, max_rate |-> max_rate]
    ELSE LET burst_start == bursts[b][1]
             burst_stop  == bursts[b][2]
             arr_rate    == bursts[b][3]
         IN  IF burst_stop <= start
             THEN ScanBursts(EraseAt(bursts, b), b, max_rate, start, stop)
             ELSE IF burst_start < stop
                  THEN LET mr == IF max_rate < arr_rate THEN arr_rate ELSE max_rate
                       IN  IF burst_stop < stop
                           THEN ScanBursts(EraseAt(bursts, b), b, mr, start, stop)
                           ELSE ScanBursts(bursts, b + 1, mr, start, stop)
                  ELSE [bursts |-> bursts, max_rate |-> max_rate]

(***************************************************************************)
(* analyze_coalitions, lines 1623-1811: the loop over the coalitions.      *)
(* The core queries (find_core, belongs_to_core) are not modelled.         *)
(***************************************************************************)
\* lines 1706-1713
Revenue(coal_fps) ==
    SumSeq([i \in 1..NumSvcs |->
              IF svc_fps[i] \in Range(coal_fps)
              THEN Fixed(scen.fp_svc_revenues[svc_fps[i]][svc_categories[i]])
              ELSE Zero])

\* a cost that deducts the coalition costs for a single FP too
CostOfAnySize(coal_fps, objective_value) ==
    Sub(objective_value,
        SumSeq([i \in 1..Len(coal_fps) |-> Fixed(scen.fp_coalition_costs[coal_fps[i]])]))

\* lines 1715-1725
Cost(coal_fps, objective_value) ==
    IF Len(coal_fps) > 1
    THEN Sub(objective_value,
             SumSeq([i \in 1..Len(coal_fps) |-> Fixed(scen.fp_coalition_costs[coal_fps[i]])]))
    ELSE objective_value

\* line 1802
InfeasibleValue == NegDblMin

VisitCoalition(coal_fps, duration, st) ==
    LET cid      == MakeCoalitionId(Range(coal_fps))
        vm_alloc == solver[cid]
    IN  IF vm_alloc.solved
        THEN LET profit == Mul(duration, Sub(Revenue(coal_fps), Cost(coal_fps, vm_alloc.objective_value)))
                 game   == (cid :> profit) @@ st.game
             IN  [game    |-> game,
                  visited |-> (cid :> [vm_allocation |-> vm_alloc,
                                       value |-> profit,
                                       payoffs |-> ShapleyValue(game, cid)]) @@ st.visited,
                  alone   |-> IF Len(coal_fps) = 1
                              THEN [st.alone EXCEPT ![coal_fps[1]] = profit]
                              ELSE st.alone,
                  order   |-> Append(st.order, cid)]
        ELSE [game    |-> (cid :> InfeasibleValue) @@ st.game,
              visited |-> (cid :> [vm_allocation |-> vm_alloc,
                                   value |-> NaN,
                                   payoffs |-> << >>]) @@ st.visited,
              alone   |-> st.alone,
              order   |-> Append(st.order, cid)]

RECURSIVE CoalitionLoop(_, _, _)
CoalitionLoop(subset, duration, st) ==
    IF ~subset.has_next_ THEN st
    ELSE LET r == NextSubset(Fps, subset)
         IN  CoalitionLoop(r.subset, duration, VisitCoalition(r.subs, duration, st))

(***************************************************************************)
(* nash_stable_partition_selector_t                                        *)
(***************************************************************************)
\* the test of lines 300-301 and 318-319, for player pid of block cid1
\* against the deviation target cid2
PreferenceCheck(visited, cid1, pid, cid2) ==
    IF cid2 \notin DOMAIN visited THEN "out_of_range"
    ELSE IF pid \notin DOMAIN visited[cid2].payoffs THEN "no_payoff"
    ELSE IF pid \notin DOMAIN visited[cid1].payoffs THEN "out_of_range"
    ELSE IF DefinitelyGreater(visited[cid2].payoffs[pid], visited[cid1].payoffs[pid])
         THEN "preferred"
         ELSE "ok"

\* the deviation targets without the singleton
DeviationTargetsOfBlocks(part, cid1, pid) ==
    LET others == SortedSeq(part \ {cid1})
    IN  [k \in 1..Len(others) |-> MakeCoalitionId(PlayersOf(others[k]) \cup {pid})]

\* the deviation targets of player pid of block cid1, in the order of
\* lines 280-325: every other block joined by pid, then the singleton
DeviationTargets(part, cid1, pid) ==
    LET others == SortedSeq(part \ {cid1})
    IN  [k \in 1..Len(others) |-> MakeCoalitionId(PlayersOf(others[k]) \cup {pid})]
        \o <<MakeCoalitionId({pid})>>

RECURSIVE FirstFailure(_)
FirstFailure(checks) ==
    IF checks = << >> THEN "ok"
    ELSE IF Head(checks) # "ok" THEN Head(checks)
    ELSE FirstFailure(Tail(checks))

RECURSIVE ConcatAll(_)
ConcatAll(ss) == IF ss = << >> THEN << >> ELSE Head(ss) \o ConcatAll(Tail(ss))

\* check_nash_stability: "ok" when it returns true, "no_payoff" or "preferred"
\* when it returns false, "out_of_range" when std::map::at throws
CheckNashStability(visited, part) ==
    LET cids == SortedSeq(part)
        PlayerChecks(cid1, pid) ==
            LET ts == DeviationTargets(part, cid1, pid)
            IN  [k \in 1..Len(ts) |-> PreferenceCheck(visited, cid1, pid, ts[k])]
        BlockChecks(cid1) ==
            LET players == SortedSeq(PlayersOf(cid1))
            IN  ConcatAll([i \in 1..Len(players) |-> PlayerChecks(cid1, players[i])])
    IN  FirstFailure(ConcatAll([c \in 1..Len(cids) |-> BlockChecks(cids[c])]))

\* lines 200-228
CandidatePartition(subsets, game, visited) ==
    LET cid(k)  == MakeCoalitionId(Range(subsets[k]))
        known   == {k \in 1..Len(subsets) : cid(k) \in DOMAIN visited}
        members == UNION {Range(subsets[k]) : k \in known}
        block(p) == cid(CHOOSE k \in known : p \in Range(subsets[k]))
    IN  [value      |-> SumSeq([k \in 1..Len(subsets) |->
                                  IF k \in known THEN game[cid(k)] ELSE Zero]),
         coalitions |-> {cid(k) : k \in known},
         payoffs    |-> [p \in members |->
                           IF p \in DOMAIN visited[block(p)].payoffs
                           THEN visited[block(p)].payoffs[p]
                           ELSE NaN]]

\* operator(): the loop over the partitions; threw tells that an exception
\* left the loop, log lists the verdict on every partition examined
RECURSIVE SelectorLoop(_, _, _, _, _)
SelectorLoop(partition, game, visited, best, log) ==
    IF ~partition.has_next_
    THEN [threw |-> FALSE, best_partitions |-> best, log |-> log]
    ELSE LET r       == NextPartition(Fps, partition)
             cand    == CandidatePartition(r.subs, game, visited)
             verdict == CheckNashStability(visited, cand.coalitions)
             entry   == [kappa |-> partition.kappa_, coalitions |-> cand.coalitions,
                         value |-> cand.value, verdict |-> verdict]
         IN  IF verdict = "out_of_range"
             THEN [threw |-> TRUE, best_partitions |-> best, log |-> Append(log, entry)]
             ELSE SelectorLoop(r.part, game, visited,
                               IF verdict = "ok" THEN Append(best, cand) ELSE best,
                               Append(log, entry))

NashStablePartitionSelector(game, visited) ==
    SelectorLoop(PartitionCtor(scen.num_fps, TRUE), game, visited, << >>, << >>)

(***************************************************************************)
(* simulator_t: the event queue.  The comparator orders events by fire     *)
(* time only, and std::priority_queue promises nothing about the order of  *)
(* equivalent elements: top() is any event no other event is ordered       *)
(* before.  seq numbers the events of a replication in scheduling order.   *)
(***************************************************************************)
arrival_burst_start_event == "arrival_burst_start_event"

arrival_burst_stop_event == "arrival_burst_stop_event"

coalition_formation_trigger_event == "coalition_formation_trigger_event"

\* event_comparator_t: TRUE when e1 goes after e2
EventComparator(e1, e2) == e1.fire_time > e2.fire_time

NoEvent == [fire_time |-> 0, tag |-> "none", state |-> << >>, seq |-> 0]

\* a queue that hands out its events in any order
TopOfUnorderedQueue(queue) == queue

\* the events top() may return
Top(queue) == {e \in queue : \A o \in queue : ~EventComparator(e, o)}

\* a schedule_event that files every event one time unit late
ScheduleEventOneLater(queue, time, tag, state, next_seq) ==
    queue \cup {[fire_time |-> time + 1, tag |-> tag, state |-> state, seq |-> next_seq]}

\* schedule_event, on a queue that holds next_seq - 1 scheduled events
ScheduleEvent(queue, time, tag, state, next_seq) ==
    queue \cup {[fire_time |-> time, tag |-> tag, state |-> state, seq |-> next_seq]}

\* a loop that runs until the queue is drained
CheckEndOfReplicationOnEmptyQueue == evt_queue = {}

\* check_end_of_replication
CheckEndOfReplication == sim_time >= max_rep_len \/ evt_queue = {} \/ FALSE

\* check_stats: TRUE when every estimator of the range is done or unstable
CheckStats(stats) == \A fp \in DOMAIN stats : stats[fp]

\* do_check_end_of_simulation: the alone-profit estimators are not consulted
DoCheckEndOfSimulation == CheckStats(fp_coal_profit_ci_stats)

\* check_end_of_simulation
CheckEndOfSimulation == done \/ num_rep >= max_num_rep \/ DoCheckEndOfSimulation

(***************************************************************************)
(* multistep_workload_generator_t::operator()                              *)
(***************************************************************************)
\* an operator() that never advances
WorkloadGeneratorStuck(svc_cat, next_idx) ==
    LET steps == scen.svc_workloads[svc_cat]
    IN  [duration     |-> steps[next_idx[svc_cat] + 1][1],
         arrival_rate |-> steps[next_idx[svc_cat] + 1][2],
         next_idx     |-> next_idx]

WorkloadGenerator(svc_cat, next_idx) ==
    LET steps == scen.svc_workloads[svc_cat]
    IN  [duration     |-> steps[next_idx[svc_cat] + 1][1],
         arrival_rate |-> steps[next_idx[svc_cat] + 1][2],
         next_idx     |-> [next_idx EXCEPT ![svc_cat] = (next_idx[svc_cat] + 1) % Len(steps)]]

\* operator() never reads its rng argument
\* (DCS_MACRO_SUPPRESS_UNUSED_VARIABLE_WARNING): the engine after k calls
RECURSIVE RngAfterCalls(_, _)
RngAfterCalls(engine, k) == IF k = 0 THEN engine ELSE RngAfterCalls(engine, k - 1)

(***************************************************************************)
(* experiment_t::setup: the FN and service tables.                         *)
(***************************************************************************)
Repeat(x, k) == [i \in 1..k |-> x]

\* lines 1146-1161: fn_fps_, the owner of every FN
RECURSIVE SetupNodes(_, _, _)
SetupNodes(sc, fp, fnc) ==
    IF fp = sc.num_fps THEN << >>
    ELSE IF fnc = sc.num_fn_categories THEN SetupNodes(sc, fp + 1, 0)
    ELSE Repeat(fp, sc.fp_num_fns[fp][fnc]) \o SetupNodes(sc, fp, fnc + 1)

RECURSIVE SetupServices(_, _, _)
SetupServices(sc, p, s) ==
    IF p = sc.num_fps THEN << >>
    ELSE IF s = sc.num_svc_categories THEN SetupServices(sc, p + 1, 0)
    ELSE Repeat([fp |-> p, cat |-> s], sc.fp_num_svcs[p][s]) \o SetupServices(sc, p, s + 1)

(***************************************************************************)
(* Scenarios, options and optimizer outcomes.                              *)
(***************************************************************************)
CoalitionIds(n) == 1..(Pow2(n) - 1)

\* every FP of a scenario owns one FN, so a coalition has as many FNs as FPs
AllOn(c) == [i \in 1..Cardinality(PlayersOf(c)) |-> TRUE]

\* vm_allocation_t as by_native_cp returns it when no solution was found
Unsolved == [solved |-> FALSE, objective_value |-> NaN, fn_power_states |-> << >>]

\* vm_allocation_t of a solution
Solved(objective_value, fn_power_states) ==
    [solved |-> TRUE, objective_value |-> objective_value, fn_power_states |-> fn_power_states]

\* the optimizer fails on at most MaxInfeasible coalitions and charges a
\* non-zero objective on at most MaxCostly of the others
SolverOutcomes(n) ==
    {[c \in CoalitionIds(n) |->
        IF c \in I THEN Unsolved
        ELSE Solved(IF c \in K THEN Fixed(o) ELSE Zero, AllOn(c))] :
     I \in {X \in SUBSET CoalitionIds(n) : Cardinality(X) <= MaxInfeasible},
     K \in {X \in SUBSET CoalitionIds(n) : Cardinality(X) <= MaxCostly},
     o \in 1..MaxObjective}

Workloads ==
    {<<<<d, 1>>>> : d \in 1..MaxDuration}
    \cup {<<<<d1, 1>>, <<d2, 2>>>> : d1 \in 1..MaxDuration, d2 \in 1..MaxDuration}

Scenario(n, k, workload, revenue, coalition_cost) ==
    [num_fps            |-> n,
     num_fn_categories  |-> 1,
     fp_num_fns         |-> [p \in 0..(n - 1) |-> [c \in {0} |-> 1]],
     num_svc_categories |-> 1,
     svc_workloads      |-> [s \in {0} |-> workload],
     fp_num_svcs        |-> [p \in 0..(n - 1) |-> [s \in {0} |-> k]],
     fp_svc_revenues    |-> [p \in 0..(n - 1) |-> [s \in {0} |-> revenue]],
     fp_coalition_costs |-> [p \in 0..(n - 1) |-> coalition_cost]]

\* verbosity_level_t
none == 0

low == 1

\* every run asks for both output files and for --verbosity 1
Options(interval, find_all, max_num_replications, max_replication_duration) ==
    [coalition_formation_interval |-> interval,
     find_all_best_partitions     |-> find_all,
     sim_max_num_replications     |-> max_num_replications,
     sim_max_replication_duration |-> max_replication_duration,
     verbosity                    |-> low]

\* scenarios that vary the game played at a trigger
GameInputs ==
    {[scen   |-> Scenario(n, 1, <<<<MaxDuration, 1>>>>, r, cc),
      opts   |-> Options(1, fa, 1, 1),
      solver |-> sv] :
     n \in 1..MaxFps, r \in 0..MaxRevenue, cc \in 0..MaxCoalitionCost,
     fa \in BOOLEAN, sv \in UNION {SolverOutcomes(m) : m \in 1..MaxFps}}

\* scenarios that vary the workload and the length of the simulation
TimingInputs ==
    {[scen   |-> Scenario(n, k, w, 1, 0),
      opts   |-> Options(i, fa, nr, rl),
      solver |-> [c \in CoalitionIds(n) |-> Solved(Zero, AllOn(c))]] :
     n \in 1..MaxFps, k \in 0..MaxSvcs, w \in Workloads, i \in 1..MaxInterval,
     fa \in BOOLEAN, nr \in 1..MaxNumRep, rl \in 0..MaxRepLen}

\* the optimizer switches off the FNs of the FPs of off in every coalition
\* they belong to
PowerOutcome(n, off) ==
    [c \in CoalitionIds(n) |->
        Solved(Zero, [i \in 1..Cardinality(PlayersOf(c)) |-> SortedSeq(PlayersOf(c))[i] \notin off])]

\* scenarios without services, of several triggers a replication, that vary
\* the FNs the optimizer switches off
PowerInputs ==
    {[scen   |-> Scenario(n, 0, <<<<MaxDuration, 1>>>>, 1, 0),
      opts   |-> Options(1, FALSE, 1, MaxRepLen),
      solver |-> PowerOutcome(n, off)] :
     n \in 1..MaxFps, off \in SUBSET (0..(MaxFps - 1))}

\* scenarios run without --formation-interval, which defaults to 0
DefaultIntervalInputs ==
    {[scen   |-> Scenario(1, k, <<<<1, 1>>>>, 1, 0),
      opts   |-> Options(0, FALSE, 1, rl),
      solver |-> [c \in CoalitionIds(1) |-> Solved(Zero, AllOn(c))]] :
     k \in 0..1, rl \in 0..1}

Inputs ==
    {x \in GameInputs : DOMAIN x.solver = CoalitionIds(x.scen.num_fps)}
    \cup {x \in TimingInputs : x.scen.num_fps * x.scen.fp_num_svcs[0][0] <= MaxSvcs}
    \cup PowerInputs
    \cup DefaultIntervalInputs

\* simulator_t::max_num_rep_ after construction (the largest std::size_t)
SizeMax == 2147483647

NoTrigger ==
    [fired |-> FALSE, start_time |-> 0, stop_time |-> 0, svc_max_rates |-> << >>,
     game |-> << >>, visited |-> << >>, order |-> << >>, threw |-> FALSE,
     best_partitions |-> << >>, log |-> << >>, max_best_partition |-> << >>,
     fp_interval_coal_profits |-> << >>, fp_interval_alone_profits |-> << >>,
     stats_row |-> << >>, fn_power_states |-> << >>]

\* main has not returned
NotExited == -1

\* the state after construction and setup() on input x
Setup(x) ==
        /\ scen = x.scen
        /\ opts = x.opts
        /\ solver = x.solver
        /\ svc_fps = [i \in 1..Len(SetupServices(x.scen, 0, 0)) |-> SetupServices(x.scen, 0, 0)[i].fp]
        /\ svc_categories = [i \in 1..Len(SetupServices(x.scen, 0, 0)) |-> SetupServices(x.scen, 0, 0)[i].cat]
        /\ fn_fps = SetupNodes(x.scen, 0, 0)
        /\ pc = "start"
        /\ sim_time = 0
        /\ num_rep = 0
        /\ max_num_rep = SizeMax
        /\ max_rep_len = 0
        /\ done = FALSE
        /\ evt_queue = {}
        /\ num_scheduled = 0
        /\ last_event = NoEvent
        /\ wkl_next_idx = [s \in 0..(x.scen.num_svc_categories - 1) |-> 0]
        /\ wkl_returned = [s \in 0..(x.scen.num_svc_categories - 1) |-> << >>]
        /\ rng = 0
        /\ rep_svc_wkl_bursts = << >>
        /\ burst_history = << >>
        /\ rep_fn_power_states = << >>
        /\ rep_fp_coal_profit_stats = << >>
        /\ rep_fp_alone_profit_stats = << >>
        /\ fp_coal_profit_ci_stats = << >>
        /\ fp_alone_profit_ci_stats = << >>
        /\ trigger = NoTrigger
        /\ dat_ofs = "unopened"
        /\ summary_written = FALSE
        /\ exit_code = NotExited

NoCall == [op |-> "none", before |-> << >>, thrown |-> "none", enumerating |-> FALSE]

\* no iterator is exercised on its own
NoIterator ==
    /\ iter_test = [kind |-> "none", ndebug |-> TRUE]
    /\ iter = << >>
    /\ iter_call = NoCall
    /\ iter_yielded = << >>

\* a vm_allocation_t constructed with objective_value 0
VmAllocationAtZero ==
    [solved |-> FALSE, optimal |-> FALSE, objective_value |-> <<0, 1>>,
     fn_vm_allocations |-> << >>, fn_power_states |-> << >>]

\* vm_allocation_t as its constructor leaves it
VmAllocation ==
    [solved |-> FALSE, optimal |-> FALSE, objective_value |-> NaN,
     fn_vm_allocations |-> << >>, fn_power_states |-> << >>]

\* no allocation problem is solved on its own
NoAllocationCall ==
    /\ alloc_pc = "none"
    /\ alloc_problem = << >>
    /\ alloc_status = "none"
    /\ alloc_solution = VmAllocation

Init ==
    /\ \E x \in Inputs : Setup(x)
    /\ NoIterator
    /\ NoAllocationCall

(***************************************************************************)
(* analyze_coalitions: selection of the interval's profits and the result  *)
(* of one trigger.  A profit estimated by a mean estimator is kept as the  *)
(* sequence of the samples collected; the empty sequence is NaN.           *)
(***************************************************************************)
\* partition_info_t after default construction; -infinity is a 3-tuple
NegInfinity == <<0, 0, -1>>

DefaultPartitionInfo == [value |-> NegInfinity, coalitions |-> {}, payoffs |-> << >>]

GreaterValueNever(x, y) == FALSE

\* best_partition.value > max_best_partition.value
GreaterValue(x, y) == IF y = NegInfinity THEN x # NegInfinity ELSE Less(y, x)

\* lines 1963-1969
RECURSIVE MaxBestPartition(_, _, _)
MaxBestPartition(best, k, max_best_partition) ==
    IF k > Len(best) THEN max_best_partition
    ELSE MaxBestPartition(best, k + 1,
            IF GreaterValue(best[k].value, max_best_partition.value)
            THEN best[k] ELSE max_best_partition)

\* the payoff visited_coalitions stores for fp in a block of the partition
StoredPayoffs(visited, part, fp) ==
    LET cids == SortedSeq({c \in part.coalitions : fp \in DOMAIN visited[c].payoffs})
    IN  [k \in 1..Len(cids) |-> visited[cids[k]].payoffs[fp]]

\* lines 1849-1981
IntervalCoalProfits(visited, best) ==
    IF opts.find_all_best_partitions
    THEN [fp \in FPs |-> ConcatAll([k \in 1..Len(best) |-> StoredPayoffs(visited, best[k], fp)])]
    ELSE [fp \in FPs |-> StoredPayoffs(visited, MaxBestPartition(best, 1, DefaultPartitionInfo), fp)]

AnalyzeCoalitions(coal_form_state) ==
    LET start    == coal_form_state.start_time
        stop     == coal_form_state.stop_time
        scans    == [svc \in 1..NumSvcs |-> ScanBursts(rep_svc_wkl_bursts[svc], 1, 0, start, stop)]
        coal     == CoalitionLoop(SubsetCtor(scen.num_fps, FALSE), stop - start,
                                  [game |-> << >>, visited |-> << >>,
                                   alone |-> [fp \in FPs |-> NaN], order |-> << >>])
        sel      == NashStablePartitionSelector(coal.game, coal.visited)
    IN  [bursts |-> [svc \in 1..NumSvcs |-> scans[svc].bursts],
         result |-> [fired |-> TRUE, start_time |-> start, stop_time |-> stop,
                     svc_max_rates |-> [svc \in 1..NumSvcs |-> scans[svc].max_rate],
                     game |-> coal.game, visited |-> coal.visited, order |-> coal.order,
                     threw |-> sel.threw,
                     best_partitions |-> sel.best_partitions,
                     log |-> sel.log,
                     max_best_partition |->
                         IF sel.threw \/ opts.find_all_best_partitions THEN << >>
                         ELSE MaxBestPartition(sel.best_partitions, 1, DefaultPartitionInfo),
                     fp_interval_coal_profits |->
                         IF sel.threw THEN << >>
                         ELSE IntervalCoalProfits(coal.visited, sel.best_partitions),
                     fp_interval_alone_profits |-> IF sel.threw THEN << >> ELSE coal.alone,
                     stats_row |-> << >>,
                     \* line 1684: the vector every call of opt_solver is handed
                     fn_power_states |-> rep_fn_power_states]]

\* std::time(nullptr): the calendar time of the host when the trigger runs
WallClock == 0..MaxWallClock

\* lines 1551 and 2129-2139: the row analyze_coalitions appends to the stats
\* file; operator<< prints every field as a function of its value
StatsRow(cur_timestamp, result) ==
    <<cur_timestamp, result.start_time, result.stop_time - result.start_time,
      result.fp_interval_coal_profits, result.fp_interval_alone_profits>>

\* analyze_coalitions, output to file included; nothing is written when the
\* selector threw
WriteStats(cur_timestamp, result) ==
    IF result.threw THEN result
    ELSE [result EXCEPT !.stats_row = StatsRow(cur_timestamp, result)]

(***************************************************************************)
(* main around run_experiment.                                             *)
(***************************************************************************)
\* what main returns: 1 from the handler an exception of run() unwinds to,
\* which logs what(), and 0 when run_experiment returned
Main(exception_thrown) == IF exception_thrown THEN 1 ELSE 0

\* unwinding destroys the experiment_t of run_experiment, and with it the
\* two std::ofstream members, which closes them
StreamsOfDestroyedExperiment == "closed"

(***************************************************************************)
(* simulator_t::run, one action per step.                                  *)
(***************************************************************************)
\* initialize_simulation and do_initialize_simulation
InitializeSimulation ==
    /\ UNCHANGED <<iter_vars, alloc_vars>>
    /\ pc = "start"
    /\ pc' = "sim_loop"
    /\ num_rep' = 0
    /\ sim_time' = 0
    /\ done' = FALSE
    /\ max_num_rep' = IF opts.sim_max_num_replications > 0
                      THEN opts.sim_max_num_replications ELSE max_num_rep
    /\ max_rep_len' = IF opts.sim_max_replication_duration >= 0
                      THEN opts.sim_max_replication_duration ELSE max_rep_len
    /\ rep_fp_coal_profit_stats' = [fp \in FPs |-> << >>]
    /\ rep_fp_alone_profit_stats' = [fp \in FPs |-> << >>]
    /\ fp_coal_profit_ci_stats' = [fp \in FPs |-> FALSE]
    /\ fp_alone_profit_ci_stats' = [fp \in FPs |-> FALSE]
    /\ dat_ofs' = "open"
    /\ UNCHANGED <<setup_vars, evt_queue, num_scheduled, last_event, wkl_next_idx,
                   wkl_returned, rng,
                   rep_svc_wkl_bursts, burst_history, rep_fn_power_states, trigger,
                   summary_written, exit_code>>

\* do_initialize_replication, lines 1349-1366: the first burst of every service
RECURSIVE ScheduleFirstBursts(_, _, _, _)
ScheduleFirstBursts(svc, queue, next_idx, now) ==
    IF svc > NumSvcs THEN [queue |-> queue, next_idx |-> next_idx]
    ELSE LET g == WorkloadGenerator(svc_categories[svc], next_idx)
             p_state == [service |-> svc, duration |-> g.duration, arrival_rate |-> g.arrival_rate]
         IN  ScheduleFirstBursts(svc + 1,
                 ScheduleEvent(queue, now, arrival_burst_start_event, p_state, svc),
                 g.next_idx, now)

\* the tuples std::tie stored in the states of the first bursts of the
\* services of a category, in the order of the calls
FirstTuples(queue, svc_cat) ==
    LET svcs == SortedSeq({svc \in 1..NumSvcs : svc_categories[svc] = svc_cat})
    IN  [k \in 1..Len(svcs) |->
            LET e == CHOOSE o \in queue : o.tag = arrival_burst_start_event
                                          /\ o.state.service = svcs[k]
            IN  <<e.state.duration, e.state.arrival_rate>>]

\* an initialize_replication that leaves the queue as the last replication
\* left it
PopNothing(queue) == queue

\* initialize_replication, lines 238-241: the queue is popped until empty
PopAll(queue) == {}

\* a trigger state whose interval always starts at time 0
TriggerStateFromZero(now) ==
    [start_time |-> 0, stop_time |-> now + opts.coalition_formation_interval]

\* lines 1368-1370 and 1530-1532: the state of the trigger scheduled at now
TriggerState(now) ==
    [start_time |-> now, stop_time |-> now + opts.coalition_formation_interval]

\* initialize_replication and do_initialize_replication
InitializeReplication ==
    /\ UNCHANGED <<iter_vars, alloc_vars>>
    /\ pc = "sim_loop"
    /\ ~CheckEndOfSimulation
    /\ pc' = "rep_loop"
    /\ num_rep' = num_rep + 1
    /\ sim_time' = 0
    /\ LET first == ScheduleFirstBursts(1, PopAll(evt_queue), wkl_next_idx, 0)
           p_state == TriggerState(0)
       IN  /\ evt_queue' = ScheduleEvent(first.queue, p_state.stop_time,
                                         coalition_formation_trigger_event, p_state, NumSvcs + 1)
           /\ wkl_next_idx' = first.next_idx
           /\ wkl_returned' = [c \in DOMAIN wkl_returned |->
                                  wkl_returned[c] \o FirstTuples(first.queue, c)]
    /\ rng' = RngAfterCalls(rng, NumSvcs)
    /\ num_scheduled' = NumSvcs + 1
    /\ last_event' = NoEvent
    /\ rep_svc_wkl_bursts' = [svc \in 1..NumSvcs |-> << >>]
    /\ burst_history' = [svc \in 1..NumSvcs |-> << >>]
    /\ rep_fn_power_states' = [fn \in 1..NumFns |-> TRUE]
    /\ rep_fp_coal_profit_stats' = [fp \in FPs |-> << >>]
    /\ rep_fp_alone_profit_stats' = [fp \in FPs |-> << >>]
    /\ trigger' = NoTrigger
    /\ UNCHANGED <<setup_vars, max_num_rep, max_rep_len, done, fp_coal_profit_ci_stats,
                   fp_alone_profit_ci_stats, out_vars>>

\* fire_event on an arrival_burst_start_event
ProcessArrivalBurstStartEvent ==
    /\ UNCHANGED <<iter_vars, alloc_vars>>
    /\ pc = "rep_loop"
    /\ ~CheckEndOfReplication
    /\ num_scheduled < MaxEvents
    /\ \E p_event \in Top(evt_queue) :
        /\ p_event.tag = arrival_burst_start_event
        /\ sim_time' = p_event.fire_time
        /\ last_event' = p_event
        /\ LET svc == p_event.state.service
               burst_stop_time == p_event.fire_time + p_event.state.duration
           IN  /\ rep_svc_wkl_bursts' =
                      [rep_svc_wkl_bursts EXCEPT ![svc] =
                          Append(@, <<p_event.fire_time, burst_stop_time, p_event.state.arrival_rate>>)]
               /\ burst_history' =
                      [burst_history EXCEPT ![svc] =
                          Append(@, <<p_event.fire_time, burst_stop_time, p_event.state.arrival_rate>>)]
               /\ evt_queue' = ScheduleEvent(evt_queue \ {p_event}, burst_stop_time,
                                             arrival_burst_stop_event, p_event.state,
                                             num_scheduled + 1)
        /\ num_scheduled' = num_scheduled + 1
    /\ UNCHANGED <<setup_vars, pc, num_rep, max_num_rep, max_rep_len, done, wkl_next_idx,
                   wkl_returned, rng,
                   rep_fn_power_states, rep_fp_coal_profit_stats, rep_fp_alone_profit_stats,
                   fp_coal_profit_ci_stats, fp_alone_profit_ci_stats, trigger, out_vars>>

\* fire_event on an arrival_burst_stop_event
ProcessArrivalBurstStopEvent ==
    /\ UNCHANGED <<iter_vars, alloc_vars>>
    /\ pc = "rep_loop"
    /\ ~CheckEndOfReplication
    /\ num_scheduled < MaxEvents
    /\ \E p_event \in Top(evt_queue) :
        /\ p_event.tag = arrival_burst_stop_event
        /\ sim_time' = p_event.fire_time
        /\ last_event' = p_event
        /\ LET svc == p_event.state.service
               g == WorkloadGenerator(svc_categories[svc], wkl_next_idx)
               p_state == [service |-> svc, duration |-> g.duration, arrival_rate |-> g.arrival_rate]
           IN  /\ wkl_next_idx' = g.next_idx
               /\ wkl_returned' = [wkl_returned EXCEPT ![svc_categories[svc]] =
                                      Append(@, <<g.duration, g.arrival_rate>>)]
               /\ rng' = RngAfterCalls(rng, 1)
               /\ evt_queue' = ScheduleEvent(evt_queue \ {p_event}, p_event.fire_time,
                                             arrival_burst_start_event, p_state,
                                             num_scheduled + 1)
        /\ num_scheduled' = num_scheduled + 1
    /\ UNCHANGED <<setup_vars, pc, num_rep, max_num_rep, max_rep_len, done, rep_svc_wkl_bursts,
                   burst_history, rep_fn_power_states,
                   rep_fp_coal_profit_stats, rep_fp_alone_profit_stats,
                   fp_coal_profit_ci_stats, fp_alone_profit_ci_stats, trigger, out_vars>>

\* fire_event on a coalition_formation_trigger_event: analyze_coalitions,
\* then the next trigger; an exception leaves run() for the handlers of main
ProcessCoalitionFormationTriggerEvent ==
    /\ UNCHANGED <<iter_vars, alloc_vars>>
    /\ pc = "rep_loop"
    /\ ~CheckEndOfReplication
    /\ num_scheduled < MaxEvents
    /\ \E p_event \in Top(evt_queue) :
        /\ p_event.tag = coalition_formation_trigger_event
        /\ sim_time' = p_event.fire_time
        /\ last_event' = p_event
        /\ \E a \in {AnalyzeCoalitions(p_event.state)}, cur_timestamp \in WallClock : LET
               p_state == TriggerState(p_event.fire_time)
           IN  /\ rep_svc_wkl_bursts' = a.bursts
               /\ trigger' = WriteStats(cur_timestamp, a.result)
               /\ IF a.result.threw
                  THEN /\ pc' = "aborted"
                       /\ evt_queue' = evt_queue \ {p_event}
                       /\ dat_ofs' = StreamsOfDestroyedExperiment
                       /\ exit_code' = Main(TRUE)
                       /\ UNCHANGED <<num_scheduled, rep_fp_coal_profit_stats,
                                      rep_fp_alone_profit_stats, summary_written>>
                  ELSE /\ pc' = pc
                       /\ UNCHANGED out_vars
                       /\ rep_fp_coal_profit_stats' =
                              [fp \in FPs |-> Append(rep_fp_coal_profit_stats[fp],
                                                     a.result.fp_interval_coal_profits[fp])]
                       /\ rep_fp_alone_profit_stats' =
                              [fp \in FPs |-> Append(rep_fp_alone_profit_stats[fp],
                                                     a.result.fp_interval_alone_profits[fp])]
                       /\ evt_queue' = ScheduleEvent(evt_queue \ {p_event}, p_state.stop_time,
                                                     coalition_formation_trigger_event, p_state,
                                                     num_scheduled + 1)
                       /\ num_scheduled' = num_scheduled + 1
    /\ UNCHANGED <<setup_vars, num_rep, max_num_rep, max_rep_len, done, wkl_next_idx,
                   wkl_returned, rng,
                   burst_history, rep_fn_power_states,
                   fp_coal_profit_ci_stats, fp_alone_profit_ci_stats>>

\* ci_mean_estimator_t: once the estimators of a vector collected one more
\* replication each of them is free to be done, unstable or neither; TRUE
\* stands for done() || unstable()
CheckStatsOutcomes == [FPs -> BOOLEAN]

\* finalize_replication and do_finalize_replication: the CI estimators
\* collect the replication's estimates and settle on a new verdict
FinalizeReplication ==
    /\ UNCHANGED <<iter_vars, alloc_vars>>
    /\ pc = "rep_loop"
    /\ CheckEndOfReplication
    /\ pc' = "sim_loop"
    /\ fp_coal_profit_ci_stats' \in CheckStatsOutcomes
    /\ fp_alone_profit_ci_stats' \in CheckStatsOutcomes
    /\ UNCHANGED <<setup_vars, sim_time, num_rep, max_num_rep, max_rep_len, done, evt_queue,
                   num_scheduled, last_event, wkl_next_idx, wkl_returned, rng,
                   rep_svc_wkl_bursts,
                   burst_history, rep_fn_power_states,
                   rep_fp_coal_profit_stats, rep_fp_alone_profit_stats, trigger, out_vars>>

\* finalize_simulation and do_finalize_simulation: the output files are
\* closed and, above verbosity none, the confidence intervals are logged;
\* run() then returns to main
FinalizeSimulation ==
    /\ UNCHANGED <<iter_vars, alloc_vars>>
    /\ pc = "sim_loop"
    /\ CheckEndOfSimulation
    /\ pc' = "done"
    /\ done' = TRUE
    /\ dat_ofs' = "closed"
    /\ summary_written' = (opts.verbosity > none)
    /\ exit_code' = Main(FALSE)
    /\ UNCHANGED <<setup_vars, sim_time, num_rep, max_num_rep, max_rep_len, evt_queue,
                   num_scheduled, last_event, wkl_next_idx, wkl_returned, rng,
                   rep_svc_wkl_bursts,
                   burst_history, rep_fn_power_states,
                   rep_fp_coal_profit_stats, rep_fp_alone_profit_stats,
                   fp_coal_profit_ci_stats, fp_alone_profit_ci_stats, trigger>>

Next ==
    \/ InitializeSimulation
    \/ InitializeReplication
    \/ ProcessArrivalBurstStartEvent
    \/ ProcessArrivalBurstStopEvent
    \/ ProcessCoalitionFormationTriggerEvent
    \/ FinalizeReplication
    \/ FinalizeSimulation

Spec == Init /\ [][Next]_vars

(***************************************************************************)
(* The iterators of dcs::algorithm exercised on their own: one iterator is *)
(* constructed, then operator++, operator-- and the next_* functions are   *)
(* called on it in any order.  DCS_ASSERT(c, a) runs a when c fails in a   *)
(* build that defines NDEBUG and is assert(c), which aborts, in one that   *)
(* does not.                                                               *)
(***************************************************************************)
\* the vector handed to operator(): the ground set itself
GroundSet(n) == [i \in 0..(n - 1) |-> i]

\* an assertion whose action is dropped in every build
AssertionDropped(exception) == "none"

\* how a call ends when the DCS_ASSERT on its first line fails
AssertionFailure(exception) == IF iter_test.ndebug THEN exception ELSE "abort"

\* DCS_DEBUG_DO(integrity_check()) after kappa_ changed: TRUE when it throws
IntegrityCheckThrows(before, after, intact) ==
    ~iter_test.ndebug /\ after.kappa_ # before.kappa_ /\ ~intact

\* a direct call of operator++ or operator--: allowed is the asserted flag,
\* result the iterator when the body ran to its end, interrupted the
\* iterator when integrity_check threw in the middle of the body
OperatorCall(op, allowed, exception, result, check_throws, interrupted) ==
    /\ iter_call.thrown # "abort"
    /\ iter' = IF ~allowed THEN iter ELSE IF check_throws THEN interrupted ELSE result
    /\ iter_call' = [op |-> op, before |-> iter, enumerating |-> FALSE,
                     thrown |-> IF ~allowed THEN AssertionFailure(exception)
                                ELSE IF check_throws THEN "domain_error" ELSE "none"]
    /\ iter_yielded' = << >>
    /\ UNCHANGED <<iter_test, sim_vars, alloc_vars>>

\* one turn of `while (it.has_next()) { x = next_...(first, last, it); }`
NextCall(subs, advanced) ==
    /\ iter_call.enumerating
    /\ iter.has_next_
    /\ iter' = advanced
    /\ iter_call' = [op |-> "next", before |-> iter, enumerating |-> TRUE, thrown |-> "none"]
    /\ iter_yielded' = Append(iter_yielded, subs)
    /\ UNCHANGED <<iter_test, sim_vars, alloc_vars>>

SubsetIncrement ==
    /\ iter_test.kind = "lexicographic_subset"
    /\ OperatorCall("++", iter.has_next_, "overflow_error", SubsetInc(iter), FALSE, iter)

SubsetDecrement ==
    /\ iter_test.kind = "lexicographic_subset"
    /\ OperatorCall("--", iter.has_prev_, "underflow_error", SubsetDec(iter), FALSE, iter)

SubsetNext ==
    /\ iter_test.kind = "lexicographic_subset"
    /\ NextCall(NextSubset(GroundSet(iter.n_), iter).subs, NextSubset(GroundSet(iter.n_), iter).subset)

PartitionIncrement ==
    /\ iter_test.kind = "lexicographic_partition"
    /\ LET r == PartitionInc(iter)
       IN  OperatorCall("++", iter.has_next_, "overflow_error", r,
                        IntegrityCheckThrows(iter, r, PartitionIntegrityCheck(r)),
                        [r EXCEPT !.has_prev_ = iter.has_prev_])

PartitionDecrement ==
    /\ iter_test.kind = "lexicographic_partition"
    /\ LET r == PartitionDec(iter)
       IN  OperatorCall("--", iter.has_prev_, "underflow_error", r,
                        IntegrityCheckThrows(iter, r, PartitionIntegrityCheck(r)),
                        [r EXCEPT !.has_next_ = iter.has_next_])

PartitionNext ==
    /\ iter_test.kind = "lexicographic_partition"
    /\ NextCall(NextPartition(GroundSet(iter.n_), iter).subs, NextPartition(GroundSet(iter.n_), iter).part)

KPartitionIncrement ==
    /\ iter_test.kind = "lexicographic_k_partition"
    /\ LET r == KPartitionInc(iter)
       IN  OperatorCall("++", iter.has_next_, "overflow_error", r,
                        IntegrityCheckThrows(iter, r, KPartitionIntegrityCheck(r)),
                        [r EXCEPT !.has_prev_ = iter.has_prev_, !.has_next_ = FALSE])

KPartitionDecrement ==
    /\ iter_test.kind = "lexicographic_k_partition"
    /\ LET r == KPartitionDec(iter)
       IN  OperatorCall("--", iter.has_prev_, "underflow_error", r,
                        IntegrityCheckThrows(iter, r, KPartitionIntegrityCheck(r)),
                        [r EXCEPT !.has_next_ = iter.has_next_, !.has_prev_ = FALSE])

KPartitionNext ==
    /\ iter_test.kind = "lexicographic_k_partition"
    /\ NextCall(KPartitionApply(iter, GroundSet(iter.n_)),
                IF iter.has_next_ THEN KPartitionInc(iter) ELSE iter)

\* the iterators a test constructs
Iterators ==
    {[kind |-> "lexicographic_subset", obj |-> SubsetCtor(n, e)] :
        n \in 1..MaxElems, e \in BOOLEAN}
    \cup {[kind |-> "lexicographic_partition", obj |-> PartitionCtor(n, f)] :
        n \in 1..MaxElems, f \in BOOLEAN}
    \cup {[kind |-> "lexicographic_k_partition", obj |-> KPartitionCtor(nk[1], nk[2], f)] :
        nk \in {x \in (1..MaxElems) \X (1..MaxElems) : x[2] <= x[1]}, f \in BOOLEAN}

\* the simulator is constructed on the smallest scenario and never run
IdleInput ==
    [scen   |-> Scenario(1, 0, <<<<1, 1>>>>, 0, 0),
     opts   |-> Options(1, FALSE, 1, 0),
     solver |-> [c \in CoalitionIds(1) |-> Solved(Zero, AllOn(c))]]

IterInit ==
    /\ Setup(IdleInput)
    /\ NoAllocationCall
    /\ \E it \in Iterators, nd \in BOOLEAN :
        /\ iter_test = [kind |-> it.kind, ndebug |-> nd]
        /\ iter = it.obj
        /\ iter_call = [op |-> "ctor", before |-> << >>, thrown |-> "none", enumerating |-> TRUE]
        /\ iter_yielded = << >>

IterNext ==
    \/ SubsetIncrement
    \/ SubsetDecrement
    \/ SubsetNext
    \/ PartitionIncrement
    \/ PartitionDecrement
    \/ PartitionNext
    \/ KPartitionIncrement
    \/ KPartitionDecrement
    \/ KPartitionNext

IterSpec == IterInit /\ [][IterNext]_vars

(***************************************************************************)
(* optimal_vm_allocation_solver_t::by_native_cp called on its own.  CPU    *)
(* and RAM requirements are fractions of an FN's capacity, counted in      *)
(* units of 1 / ReqDen.  Every VM is of a category of its own and so is    *)
(* every FN, so that vm_cpu_specs[j][i] is the requirement of VM j on FN   *)
(* i.  IloCP is a library: solve() is taken to return, when it returns a   *)
(* solution, values that satisfy every constraint added to the model, and  *)
(* any such values (the search may stop at a feasible solution).           *)
(***************************************************************************)
MaxFns == 2
MaxVms == 2
ReqDen == 2
MaxAsleepCost == 1

Requirements == 1..ReqDen

\* a cost of n / ReqDen, as the fraction <<numerator, denominator>>
Num(n) == <<n, ReqDen>>

\* IloInfinity and std::numeric_limits<RealT>::infinity(), the fraction 1/0
IloInfinity == <<1, 0>>

\* + and < on costs, each finite or IloInfinity
IloAdd(u, v) == IF u = IloInfinity \/ v = IloInfinity THEN IloInfinity ELSE Num(u[1] + v[1])

IloLess(u, v) == u # IloInfinity /\ (v = IloInfinity \/ u[1] < v[1])

\* IloSum over the first n entries of a 0-based array
RECURSIVE IloSum(_, _)
IloSum(a, n) == IF n = 0 THEN 0 ELSE IloSum(a, n - 1) + a[n - 1]

\* the same sum over costs
RECURSIVE IloSumOfCosts(_, _)
IloSumOfCosts(a, n) ==
    IF n = 0 THEN Num(0) ELSE IloAdd(IloSumOfCosts(a, n - 1), a[n - 1])

\* the scenario's tables, the same in every problem: awake cost of an FN,
\* electricity cost of an FN at its minimum power and of the span from
\* minimum to maximum power, penalty rate of a service (positive), and the
\* delays relative to svc_cat_max_delays that the sizing stops at and
\* continues from
AwakeCost == 1
MinPowerCost == 1
DeltaPowerCost == 1
Penalty == 1
DelayMet == Num(1)
DelayMissed == Num(2 * ReqDen)

\* MMc::getDelays for a service sized at n VMs: infinity with no VM, a delay
\* over the maximum (infinite on a saturated queue) with fewer than n VMs,
\* the first delay within the maximum with n
DelayTables(n) ==
    {d \in [0..n -> {IloInfinity, DelayMissed, DelayMet}] :
        /\ d[0] = IloInfinity
        /\ d[n] = DelayMet
        /\ \A k \in 1..(n - 1) : d[k] # DelayMet}

\* vm_to_svcs over nv VMs: services are numbered from 0 in the order of
\* their VMs, each with one VM at least
VmToSvcs(nv) ==
    {m \in [0..(nv - 1) -> 0..(nv - 1)] :
        \A j \in 0..(nv - 1) :
            /\ j = 0 => m[j] = 0
            /\ j > 0 => m[j] \in {m[j - 1], m[j - 1] + 1}}

\* the services of the VMs of a problem (svcs)
Svcs(m) == {m[j] : j \in DOMAIN m}

\* the problems by_native_cp is called on
AllocationProblems ==
    UNION {UNION {[nfns : {nf}, nvms : {nv},
                   fn_power_states : [0..(nf - 1) -> BOOLEAN],
                   asleep_cost : 0..MaxAsleepCost,
                   vm_to_svcs : {m},
                   svc_predicted_delays :
                       {t \in [Svcs(m) -> UNION {DelayTables(n) : n \in 1..nv}] :
                           \A svc \in Svcs(m) :
                               t[svc] \in DelayTables(Cardinality({j \in DOMAIN m : m[j] = svc}))},
                   vm_cpu_specs : [0..(nv - 1) -> [0..(nf - 1) -> Requirements]],
                   vm_ram_specs : [0..(nv - 1) -> [0..(nf - 1) -> Requirements]]] :
                  m \in VmToSvcs(nv)} :
           nf \in 1..MaxFns, nv \in 0..MaxVms}

\* the variables x[i] and y[i][j] of the model, lines 205-230
DecisionVariables(p) ==
    [x : [0..(p.nfns - 1) -> {0, 1}],
     y : [0..(p.nfns - 1) -> [0..(p.nvms - 1) -> {0, 1}]]]

\* the decision expression u[i], in units of 1 / ReqDen
U(p, y, i) == IloSum([j \in 0..(p.nvms - 1) |-> y[i][j] * p.vm_cpu_specs[j][i]], p.nvms)

\* sum_j y[i][j] <= |VM'| * x[i]
PowerConstraint(p, x, y) ==
    \A i \in 0..(p.nfns - 1) : IloSum(y[i], p.nvms) <= p.nvms * x[i]

\* sum_i y[i][j] <= 1
SingleFnConstraint(p, x, y) ==
    \A j \in 0..(p.nvms - 1) : IloSum([i \in 0..(p.nfns - 1) |-> y[i][j]], p.nfns) <= 1

\* u[i] <= x[i]
CpuConstraint(p, x, y) ==
    \A i \in 0..(p.nfns - 1) : U(p, y, i) <= ReqDen * x[i]

\* a model without the constraint on RAM
NoRamConstraint(p, x, y) == TRUE

\* sum_j y[i][j] * M[j][i] <= x[i]
RamConstraint(p, x, y) ==
    \A i \in 0..(p.nfns - 1) :
        IloSum([j \in 0..(p.nvms - 1) |-> y[i][j] * p.vm_ram_specs[j][i]], p.nvms)
            <= ReqDen * x[i]

\* the constraints added to the IloModel
Model(p, x, y) ==
    /\ PowerConstraint(p, x, y)
    /\ SingleFnConstraint(p, x, y)
    /\ CpuConstraint(p, x, y)
    /\ RamConstraint(p, x, y)

\* the electricity cost of FN i, in units of 1 / ReqDen
ElectricityCost(p, a, i) ==
    a.x[i] * MinPowerCost * ReqDen + DeltaPowerCost * U(p, a.y, i)

\* a switch cost that charges nothing for powering an FN off
SwitchOnCost(p, a, i) ==
    LET fn_power_state == IF p.fn_power_states[i] THEN 1 ELSE 0
    IN  ReqDen * a.x[i] * (1 - fn_power_state) * AwakeCost

\* the switch-on/off cost of FN i, in units of 1 / ReqDen
SwitchCost(p, a, i) ==
    LET fn_power_state == IF p.fn_power_states[i] THEN 1 ELSE 0
    IN  ReqDen * (a.x[i] * (1 - fn_power_state) * AwakeCost
                  + (1 - a.x[i]) * fn_power_state * p.asleep_cost)

\* allocated_vms_expr summed over the VMs of a service (num_vms_expr)
NumVms(p, a, svc) ==
    IloSum([j \in 0..(p.nvms - 1) |->
               IF p.vm_to_svcs[j] = svc
               THEN IloSum([i \in 0..(p.nfns - 1) |-> a.y[i][j]], p.nfns)
               ELSE 0], p.nvms)

\* the SLA violation cost of a service:
\* (IloMax(delay / max_delay, 1.0) - 1.0) * penalty
SlaCost(p, a, svc) ==
    LET delay == p.svc_predicted_delays[svc][NumVms(p, a, svc)]
    IN  IF delay = IloInfinity THEN IloInfinity
        ELSE Num((Max2(delay[1], ReqDen) - ReqDen) * Penalty)

\* obj_expr
Objective(p, a) ==
    LET fn_costs  == [i \in 0..(p.nfns - 1) |->
                         Num(ElectricityCost(p, a, i) + SwitchCost(p, a, i))]
        svcs      == SortedSeq(Svcs(p.vm_to_svcs))
        sla_costs == [k \in 0..(Len(svcs) - 1) |-> SlaCost(p, a, svcs[k + 1])]
    IN  IloAdd(IloSumOfCosts(fn_costs, p.nfns), IloSumOfCosts(sla_costs, Len(svcs)))

\* the values solver.getValue can return after a solve() that found a solution
IloCPSolutions(p) == {a \in DecisionVariables(p) : Model(p, a.x, a.y)}

\* the solutions of minimum objective
IloCPOptima(p) ==
    {a \in IloCPSolutions(p) :
        \A b \in IloCPSolutions(p) : ~IloLess(Objective(p, b), Objective(p, a))}

\* the statuses getStatus can report, with and without a solution
Optimal == "Optimal"
Feasible == "Feasible"
StatusesWithoutSolution ==
    {"Infeasible", "Unbounded", "InfeasibleOrUnbounded", "Error", "Unknown"}

\* solver.solve(): IloTrue when a solution was found, which is when the
\* status is Feasible or Optimal
Solve(status) == status \in {Optimal, Feasible}

\* lines 583-607: the flags and the objective of a solution found
Found(status, objective_value) ==
    [VmAllocation EXCEPT !.solved = Solve(status),
                         !.optimal = (status = Optimal),
                         !.objective_value = objective_value]

\* the solution filled from the solver's values
Extract(p, a, solution) ==
    [solution EXCEPT
        !.fn_power_states   = [i \in 0..(p.nfns - 1) |-> a.x[i] # 0],
        !.fn_vm_allocations = [i \in 0..(p.nfns - 1) |->
                                  [j \in 0..(p.nvms - 1) |-> a.y[i][j] # 0]]]

\* by_native_cp: status Optimal or Feasible, or the early return on any
\* other status, with solved as solve() returned it
ByNativeCp ==
    /\ alloc_pc = "called"
    /\ alloc_pc' = "returned"
    /\ \/ \E a \in IloCPSolutions(alloc_problem),
             status \in {Optimal, Feasible} :
              /\ status = Optimal => a \in IloCPOptima(alloc_problem)
              /\ alloc_status' = status
              /\ alloc_solution' =
                     Extract(alloc_problem, a, Found(status, Objective(alloc_problem, a)))
       \/ \E status \in StatusesWithoutSolution :
              /\ alloc_status' = status
              /\ alloc_solution' = [VmAllocation EXCEPT !.solved = Solve(status)]
    /\ UNCHANGED <<alloc_problem, sim_vars, iter_vars>>

AllocInit ==
    /\ Setup(IdleInput)
    /\ NoIterator
    /\ alloc_pc = "called"
    /\ alloc_problem \in AllocationProblems
    /\ alloc_status = "none"
    /\ alloc_solution = VmAllocation

AllocNext == ByNativeCp

AllocSpec == AllocInit /\ [][AllocNext]_vars

(***************************************************************************)
(* Properties of the coalition formation.  They read the game, the         *)
(* coalitions visited and the partitions returned by the last trigger.     *)
(***************************************************************************)
\* the set-partitions of n players as restricted growth strings
RestrictedGrowthStrings(n) ==
    {f \in [0..(n - 1) -> 0..(n - 1)] :
        f[0] = 0 /\ \A i \in 1..(n - 1) : \E j \in 0..(i - 1) : f[i] <= f[j] + 1}

BlocksOf(f) == {MakeCoalitionId({i \in DOMAIN f : f[i] = b}) : b \in {f[i] : i \in DOMAIN f}}

LexLess(f, g) ==
    \E i \in DOMAIN f : f[i] < g[i] /\ \A j \in DOMAIN f : j < i => f[j] = g[j]

HasPayoff(c, i) == c \in DOMAIN trigger.visited /\ i \in DOMAIN trigger.visited[c].payoffs

DeviationsOf(part, B, i) ==
    {MakeCoalitionId(PlayersOf(B2) \cup {i}) : B2 \in part \ {B}} \cup {MakeCoalitionId({i})}

\* player i of block B has a stored payoff in T that beats what it has in B
Prefers(i, T, B) ==
    /\ HasPayoff(T, i)
    /\ \/ ~HasPayoff(B, i)
       \/ DefinitelyGreater(trigger.visited[T].payoffs[i], trigger.visited[B].payoffs[i])

NashStable(part) ==
    \A B \in part : \A i \in PlayersOf(B) : \A T \in DeviationsOf(part, B, i) : ~Prefers(i, T, B)

NashStablePartitions == {f \in RestrictedGrowthStrings(scen.num_fps) : NashStable(BlocksOf(f))}

PartitionValue(f) ==
    LET cids == SortedSeq(BlocksOf(f))
    IN  SumSeq([k \in 1..Len(cids) |-> trigger.game[cids[k]]])

Completed == trigger.fired /\ ~trigger.threw

\* C1: in every partition the selector returns, no player has a stored
\* payoff in another block joined by itself, or alone, that is definitely
\* greater than its payoff in its own block.
C1_ReturnedPartitionsAreNashStable ==
    \A k \in 1..Len(trigger.best_partitions) :
        NashStable(trigger.best_partitions[k].coalitions)

C1_Witness ==
    /\ Completed
    /\ \E k \in 1..Len(trigger.best_partitions) :
          Cardinality(trigger.best_partitions[k].coalitions) < scen.num_fps
    /\ \E k \in 1..Len(trigger.log) : trigger.log[k].verdict = "preferred"

\* C2: with two FPs, feasible singletons and an infeasible grand coalition,
\* the trigger returns the partition {{0},{1}} and no other.
C2_InfeasibleGrandCoalitionSelectsSingletons ==
    (/\ trigger.fired
     /\ scen.num_fps = 2
     /\ solver[1].solved /\ solver[2].solved /\ ~solver[3].solved)
    => (/\ ~trigger.threw
        /\ Len(trigger.best_partitions) = 1
        /\ trigger.best_partitions[1].coalitions = {1, 2})

\* C3: a trigger that met an infeasible coalition runs to completion: it
\* raises no error and the next trigger is scheduled.
C3_InfeasibleCoalitionIsAbsorbed ==
    (trigger.fired /\ \E c \in DOMAIN solver : ~solver[c].solved)
    => (/\ pc # "aborted"
        /\ \E e \in evt_queue : /\ e.tag = coalition_formation_trigger_event
                                /\ e.state.start_time = trigger.stop_time)

\* C4: a partition the selector rejects has a player with a definitely
\* greater stored payoff elsewhere; none is rejected because a deviation
\* target is infeasible.
C4_InfeasibleTargetNeverRejects ==
    \A k \in 1..Len(trigger.log) :
        trigger.log[k].verdict \in {"no_payoff", "preferred"}
        => ~NashStable(trigger.log[k].coalitions)

\* C5: an infeasible coalition has no payoffs and a value below the value
\* of every feasible coalition.
C5_InfeasibleValueIsLowest ==
    \A c \in DOMAIN trigger.visited :
        ~trigger.visited[c].vm_allocation.solved
        => (/\ DOMAIN trigger.visited[c].payoffs = {}
            /\ \A d \in DOMAIN trigger.visited :
                  trigger.visited[d].vm_allocation.solved
                  => Less(trigger.game[c], trigger.game[d]))

\* C6: in all-best-partitions mode every Nash-stable partition of the FPs
\* is in the returned list exactly once.
C6_AllBestReturnsEveryNashStablePartition ==
    (trigger.fired /\ opts.find_all_best_partitions)
    => \A f \in NashStablePartitions :
          Cardinality({k \in 1..Len(trigger.best_partitions) :
                          trigger.best_partitions[k].coalitions = BlocksOf(f)}) = 1

\* C7: outside all-best-partitions mode the partition used is a Nash-stable
\* partition of maximum value, the lexicographically first of those.
C7_SelectedPartitionIsFirstMaximum ==
    (Completed /\ ~opts.find_all_best_partitions /\ trigger.best_partitions # << >>)
    => \E f \in NashStablePartitions :
          /\ trigger.max_best_partition.coalitions = BlocksOf(f)
          /\ \A g \in NashStablePartitions :
                /\ ~Less(PartitionValue(f), PartitionValue(g))
                /\ PartitionValue(g) = PartitionValue(f) => ~LexLess(g, f)

\* C8: two identical FPs, every coalition feasible, prohibitive coalition
\* costs: the trigger returns the partition {{0},{1}} and no other.
C8_ProhibitiveCostKeepsSingletons ==
    (/\ trigger.fired
     /\ scen.num_fps = 2
     /\ \A c \in DOMAIN solver : solver[c].solved
     /\ solver[1] = solver[2]
     /\ scen.fp_coalition_costs[0] = MaxCoalitionCost)
    => (/\ Len(trigger.best_partitions) = 1
        /\ trigger.best_partitions[1].coalitions = {1, 2})

(***************************************************************************)
(* Properties of the event loop.                                           *)
(***************************************************************************)
\* a step of the replication loop that fires an event after another one
FiresNextEvent == pc = "rep_loop" /\ last_event.tag # "none" /\ last_event' # last_event

\* C9: within a replication the fire time of the event processed, and so
\* the simulated time, never decreases.
C9_FireTimesNeverDecrease ==
    [][FiresNextEvent => /\ last_event'.fire_time >= last_event.fire_time
                         /\ sim_time' >= sim_time]_vars

C9_Witness ==
    /\ pc = "rep_loop"
    /\ last_event.tag = arrival_burst_stop_event
    /\ sim_time > 0
    /\ \E e \in evt_queue : e.fire_time > sim_time
    /\ \E e \in evt_queue : e.fire_time = sim_time

\* C10: of two events with the same fire time, the one scheduled first is
\* processed first.
C10_TiesFireInSchedulingOrder ==
    [][(FiresNextEvent /\ last_event'.fire_time = last_event.fire_time)
       => last_event'.seq > last_event.seq]_vars

(***************************************************************************)
(* The loops of simulator_t::run.                                          *)
(***************************************************************************)
\* C11: once the event queue is empty or simulated time has reached
\* max_replication_duration, the replication's loop fires no further event:
\* the queue, the clock and the last fired event stay as they are.
C11_NoEventFiresAfterEnd ==
    [][(pc = "rep_loop" /\ (evt_queue = {} \/ sim_time >= max_rep_len))
       => (evt_queue' = evt_queue /\ sim_time' = sim_time /\ last_event' = last_event)]_vars

\* a replication that fired events was finalized with events still queued
C11_Witness ==
    /\ pc = "sim_loop"
    /\ num_rep >= 1
    /\ last_event.tag # "none"
    /\ evt_queue # {}
    /\ sim_time >= max_rep_len

\* every per-FP CI estimator, of coalition profit and of alone profit, is
\* done or unstable
EveryEstimatorSettled ==
    CheckStats(fp_coal_profit_ci_stats) /\ CheckStats(fp_alone_profit_ci_stats)

\* max_num_replications replications have been run, 0 meaning no limit
ReplicationsExhausted ==
    opts.sim_max_num_replications # 0 /\ num_rep >= opts.sim_max_num_replications

\* C12: after each replication the simulation ends if and only if every
\* per-FP CI estimator (coalition profit and alone profit) is done or
\* unstable, or max_num_replications replications have been run.
C12_SimulationEndsIffSettledOrExhausted ==
    [][(pc = "sim_loop" /\ num_rep >= 1)
       => ((pc' = "done") <=> (EveryEstimatorSettled \/ ReplicationsExhausted))]_vars

(***************************************************************************)
(* Reproducibility of the output files.  The RNG is never drawn from and   *)
(* the scenario, the options and the optimizer are fixed by Init, so a     *)
(* second run of the same build differs from the run observed only in what *)
(* the host's calendar clock returns.                                      *)
(***************************************************************************)
\* C13: two runs with the same RNG seed, scenario and options write the
\* same bytes: the stats row a trigger wrote is the row the trigger of a
\* second run writes, whatever the calendar time of that run.
C13_OutputFilesAreReproducible ==
    (trigger.fired /\ ~trigger.threw)
        => \A rerun_timestamp \in WallClock : StatsRow(rerun_timestamp, trigger) = trigger.stats_row

(***************************************************************************)
(* The iterators exercised on their own (IterSpec).                        *)
(***************************************************************************)
\* the element an iterator stands at: the bit mask or the growth string
Element(it) == IF iter_test.kind = "lexicographic_subset" THEN it.bits_ ELSE it.kappa_

\* the call just made is op2 and returned, and the call before it was op1
\* and returned
Undoes(op1, op2) ==
    /\ iter_call.op = op1
    /\ iter_call.thrown = "none"
    /\ iter_call' # iter_call
    /\ iter_call'.op = op2
    /\ iter_call'.thrown = "none"

\* C14: subset and partition iterators are invertible: where ++ was allowed,
\* ++ followed by -- leaves the iterator at the element it stood at before,
\* and where -- was allowed, -- followed by ++ does.
C14_IncrementAndDecrementAreInverse ==
    [][(Undoes("++", "--") \/ Undoes("--", "++"))
       => Element(iter') = Element(iter_call.before)]_vars

\* op was just called on an iterator whose flag for that direction was off:
\* ++ after has_next() turned false, -- after has_prev() turned false
CalledPastTheEnd(op) ==
    /\ iter_call' # iter_call
    /\ iter_call'.op = op
    /\ ~(IF op = "++" THEN iter.has_next_ ELSE iter.has_prev_)

\* C15 as stated: advancing an iterator past its last element fails with an
\* overflow error and retreating it past its first element fails with an
\* underflow error.
C15_PastTheEndFailsWithOverflowOrUnderflow ==
    [][/\ CalledPastTheEnd("++") => iter_call'.thrown = "overflow_error"
       /\ CalledPastTheEnd("--") => iter_call'.thrown = "underflow_error"]_vars

\* C15 amended: such a call throws std::overflow_error (std::underflow_error)
\* in a build that defines NDEBUG and aborts on the failed assertion in one
\* that does not; either way the iterator is left as it was.
C15_PastTheEndFailsAsTheBuildAsserts ==
    [][/\ CalledPastTheEnd("++")
            => /\ iter_call'.thrown = (IF iter_test.ndebug THEN "overflow_error" ELSE "abort")
               /\ iter' = iter
       /\ CalledPastTheEnd("--")
            => /\ iter_call'.thrown = (IF iter_test.ndebug THEN "underflow_error" ELSE "abort")
               /\ iter' = iter]_vars

\* a k-partition iterator that went through all its partitions, was advanced
\* once more and threw
C15_Witness ==
    /\ iter_test.kind = "lexicographic_k_partition"
    /\ iter.n_ > iter.k_
    /\ iter.k_ > 1
    /\ iter_call.op = "++"
    /\ iter_call.thrown = "overflow_error"
    /\ iter.kappa_ = KPartitionCtor(iter.n_, iter.k_, FALSE).kappa_
    /\ iter.has_prev_

\* the loop `while (it.has_next()) next_...(first, last, it)` ran from the
\* constructed iterator until has_next() turned false
EnumerationEnded(kind) ==
    /\ iter_test.kind = kind
    /\ iter_call.enumerating
    /\ ~iter.has_next_

AllDistinct(seq) == \A i, j \in 1..Len(seq) : seq[i] = seq[j] => i = j

\* C16: for a ground set of size n the subset iterator yields 2^n subsets
\* when the empty set is included and 2^n - 1 when it is not, all distinct.
C16_SubsetIteratorYieldsEverySubsetOnce ==
    EnumerationEnded("lexicographic_subset")
        => /\ Len(iter_yielded) = Pow2(iter.n_) - (IF iter.empty_set_ THEN 0 ELSE 1)
           /\ AllDistinct(iter_yielded)

C16_Witness ==
    /\ EnumerationEnded("lexicographic_subset")
    /\ iter.n_ >= 3
    /\ ~iter.empty_set_
    /\ Len(iter_yielded) >= 7

\* Stirling numbers of the second kind and Bell numbers
RECURSIVE Stirling2(_, _)
Stirling2(n, k) ==
    IF n = 0 /\ k = 0 THEN 1
    ELSE IF n = 0 \/ k = 0 THEN 0
    ELSE k * Stirling2(n - 1, k) + Stirling2(n - 1, k - 1)

RECURSIVE BellSum(_, _)
BellSum(n, k) == IF k = 0 THEN Stirling2(n, 0) ELSE Stirling2(n, k) + BellSum(n, k - 1)

Bell(n) == BellSum(n, n)

\* the enumeration started at the first partition, the default of the
\* constructors
StartedAt(first_iterator, apply(_, _)) ==
    /\ iter_yielded # << >>
    /\ iter_yielded[1] = apply(first_iterator, GroundSet(iter.n_))

\* C17: for n >= 1 the partition iterator, started at its initial state,
\* yields the Bell number B_n of partitions of {0..n-1}, all distinct.
C17_PartitionIteratorYieldsBellNumber ==
    (EnumerationEnded("lexicographic_partition")
     /\ StartedAt(PartitionCtor(iter.n_, TRUE), PartitionApply))
        => /\ Len(iter_yielded) = Bell(iter.n_)
           /\ AllDistinct(iter_yielded)

C17_Witness ==
    /\ EnumerationEnded("lexicographic_partition")
    /\ StartedAt(PartitionCtor(iter.n_, TRUE), PartitionApply)
    /\ iter.n_ >= 3
    /\ Len(iter_yielded) >= 5

\* C18: for 1 <= k <= n the k-partition iterator, started at its initial
\* state, yields S(n,k) distinct partitions of {0..n-1}.
C18_KPartitionIteratorYieldsStirlingNumber ==
    (EnumerationEnded("lexicographic_k_partition")
     /\ StartedAt(KPartitionCtor(iter.n_, iter.k_, TRUE), KPartitionApply))
        => /\ Len(iter_yielded) = Stirling2(iter.n_, iter.k_)
           /\ AllDistinct(iter_yielded)

C18_Witness ==
    /\ EnumerationEnded("lexicographic_k_partition")
    /\ StartedAt(KPartitionCtor(iter.n_, iter.k_, TRUE), KPartitionApply)
    /\ iter.n_ >= 4
    /\ iter.k_ = 2
    /\ Len(iter_yielded) >= 7

\* the largest of kappa[0..i]
MaxKappa(kappa, i) == CHOOSE m \in {kappa[j] : j \in 0..i} : \A j \in 0..i : kappa[j] <= m

\* C19: in every state of the partition iterator kappa[0] = 0,
\* kappa[i] <= max(kappa[0..i-1]) + 1 for i >= 1 and M[i] = max(kappa[0..i]).
C19_PartitionIsRestrictedGrowthString ==
    iter_test.kind = "lexicographic_partition"
        => /\ iter.kappa_[0] = 0
           /\ \A i \in 1..(iter.n_ - 1) : iter.kappa_[i] <= MaxKappa(iter.kappa_, i - 1) + 1
           /\ \A i \in 0..(iter.n_ - 1) : iter.M_[i] = MaxKappa(iter.kappa_, i)

\* the iterator was advanced, then retreated to a partition of several blocks
C19_Witness ==
    /\ iter_test.kind = "lexicographic_partition"
    /\ iter_call.op = "--"
    /\ iter_call.thrown = "none"
    /\ iter.kappa_ # iter_call.before.kappa_
    /\ iter.n_ >= 3
    /\ iter.M_[iter.n_ - 1] >= 1
    /\ iter.has_prev_

\* C20: in every state of the k-partition iterator the partition has
\* exactly k blocks: num_subsets = M[n-1] + 1 = k.
C20_KPartitionHasExactlyKBlocks ==
    iter_test.kind = "lexicographic_k_partition"
        => /\ KPartitionNumSubsets(iter) = iter.M_[iter.n_ - 1] + 1
           /\ iter.M_[iter.n_ - 1] + 1 = iter.k_
           /\ Cardinality({iter.kappa_[i] : i \in 0..(iter.n_ - 1)}) = iter.k_

\* the iterator was advanced, then retreated
C20_Witness ==
    /\ iter_test.kind = "lexicographic_k_partition"
    /\ iter_call.op = "--"
    /\ iter_call.thrown = "none"
    /\ iter.kappa_ # iter_call.before.kappa_
    /\ iter.n_ >= 4
    /\ iter.k_ = 2
    /\ iter.has_prev_

(***************************************************************************)
(* The workload seen by a trigger.  A burst <<start, stop, rate>> covers   *)
(* the simulated times from start up to, not including, stop.              *)
(***************************************************************************)
\* the burst has a time in common with the trigger interval
Overlaps(burst, start, stop) == burst[2] > start /\ burst[1] < stop

\* the largest rate among the overlapping bursts, 0 when there is none
PeakRate(bursts, start, stop) ==
    LET rates == {0} \cup {bursts[i][3] : i \in {j \in 1..Len(bursts) : Overlaps(bursts[j], start, stop)}}
    IN  CHOOSE r \in rates : \A q \in rates : q <= r

CoalFns(coal_fps) ==
    ConcatAll([i \in 1..Len(coal_fps) |-> SortedSeq({fn \in 1..NumFns : fn_fps[fn] = coal_fps[i]})])

\* trigger tr selected one partition and every block of it has an allocation
SelectedAllocation(tr) ==
    /\ tr.fired /\ ~tr.threw
    /\ ~opts.find_all_best_partitions
    /\ tr.best_partitions # << >>
    /\ \A c \in tr.max_best_partition.coalitions : tr.visited[c].vm_allocation.solved

\* the power state the allocations of the selected partition give every FN
DecidedPowerStates(tr) ==
    [fn \in 1..NumFns |->
        LET c   == CHOOSE d \in tr.max_best_partition.coalitions : fn_fps[fn] \in PlayersOf(d)
            fns == CoalFns(SortedSeq(PlayersOf(c)))
            i   == CHOOSE j \in 1..Len(fns) : fns[j] = fn
        IN  tr.visited[c].vm_allocation.fn_power_states[i]]

\* a step in which a trigger ran analyze_coalitions
TriggerFires == trigger' # trigger /\ trigger'.fired

\* C22: the power-state vector handed to the optimizer at a trigger is all
\* on at the first trigger of a replication, and afterwards the power states
\* decided by the allocation selected at the previous trigger.
C22_OptimizerIsHandedCurrentPowerStates ==
    [][TriggerFires
       => /\ ~trigger.fired
              => trigger'.fn_power_states = [fn \in 1..NumFns |-> TRUE]
          /\ SelectedAllocation(trigger)
              => trigger'.fn_power_states = DecidedPowerStates(trigger)]_vars

(***************************************************************************)
(* The start of a replication.                                             *)
(***************************************************************************)
\* a step of initialize_replication
ReplicationStarts == pc = "sim_loop" /\ pc' = "rep_loop"

\* the workload generators as setup() constructs them
FreshGenerators == [s \in 0..(scen.num_svc_categories - 1) |-> 0]

\* the events do_initialize_replication schedules from generators gens
InitialSchedule(gens) ==
    ScheduleEvent(ScheduleFirstBursts(1, {}, gens, 0).queue,
                  opts.coalition_formation_interval, coalition_formation_trigger_event,
                  [start_time |-> 0, stop_time |-> opts.coalition_formation_interval],
                  NumSvcs + 1)

\* C23: at the start of each replication simulated time is 0, the event
\* queue contains only the initial schedule, every burst list is empty,
\* every FN is on and the replication-scoped estimators hold no samples, so
\* that nothing of the previous replication carries over: the replication
\* starts from the state the first replication started from.
C23_ReplicationStartsFromFreshState ==
    [][ReplicationStarts
       => /\ sim_time' = 0
          /\ rep_svc_wkl_bursts' = [svc \in 1..NumSvcs |-> << >>]
          /\ rep_fn_power_states' = [fn \in 1..NumFns |-> TRUE]
          /\ rep_fp_coal_profit_stats' = [fp \in FPs |-> << >>]
          /\ rep_fp_alone_profit_stats' = [fp \in FPs |-> << >>]
          /\ evt_queue' = InitialSchedule(FreshGenerators)
          /\ wkl_next_idx' = ScheduleFirstBursts(1, {}, FreshGenerators, 0).next_idx]_vars

\* the events of a tag in a queue
EventsOf(queue, tag) == {e \in queue : e.tag = tag}

\* C24: at the start of every replication the event queue holds exactly one
\* arrival_burst_start event per service, at t = 0, exactly one
\* coalition_formation_trigger event, at t = formation_interval, and no
\* other event.
C24_InitialScheduleOfAReplication ==
    [][ReplicationStarts
       => /\ \A svc \in 1..NumSvcs :
                 \E e \in evt_queue' :
                    /\ e.fire_time = 0
                    /\ {o \in EventsOf(evt_queue', arrival_burst_start_event) :
                           o.state.service = svc} = {e}
          /\ \E e \in evt_queue' :
                 /\ e.fire_time = opts.coalition_formation_interval
                 /\ EventsOf(evt_queue', coalition_formation_trigger_event) = {e}
          /\ Cardinality(evt_queue') = NumSvcs + 1]_vars

\* the second replication starts, with two services, after a replication
\* that stopped with events still queued (a trigger is always pending)
C24_Witness ==
    /\ pc = "rep_loop"
    /\ num_rep = 2
    /\ last_event.tag = "none"
    /\ NumSvcs = 2
    /\ Cardinality(evt_queue) = 3

(***************************************************************************)
(* The events a handler schedules.                                         *)
(***************************************************************************)
\* the step fired an event of the tag and its handler returned
Handled(tag) == last_event' # last_event /\ last_event'.tag = tag /\ pc' = "rep_loop"

Contiguous(bursts) ==
    /\ bursts # << >> => bursts[1][1] = 0
    /\ \A b \in 2..Len(bursts) : bursts[b][1] = bursts[b - 1][2]

\* C26: an arrival_burst_stop at time t schedules the next
\* arrival_burst_start of the service at t, so the bursts recorded for a
\* service are contiguous: the first starts at 0 and every other one starts
\* when the burst before it stops.
C26_BurstsAreContiguous ==
    [][/\ \A svc \in DOMAIN burst_history' : Contiguous(burst_history'[svc])
       /\ Handled(arrival_burst_stop_event)
           => \E e \in evt_queue' \ evt_queue :
                 /\ evt_queue' \ evt_queue = {e}
                 /\ e.tag = arrival_burst_start_event
                 /\ e.state.service = last_event'.state.service
                 /\ e.fire_time = last_event'.fire_time]_vars

\* a service recorded two bursts and a trigger erased the first
C26_Witness ==
    \E svc \in DOMAIN burst_history :
        /\ Len(burst_history[svc]) >= 2
        /\ Len(rep_svc_wkl_bursts[svc]) < Len(burst_history[svc])
        /\ burst_history[svc][1][3] # burst_history[svc][2][3]

RECURSIVE SumOfSizes(_)
SumOfSizes(blocks) ==
    IF blocks = {} THEN 0
    ELSE LET c == CHOOSE d \in blocks : TRUE
         IN  Cardinality(PlayersOf(c)) + SumOfSizes(blocks \ {c})

\* C28: every partition the partition iterator produces and the selector
\* evaluates consists of non-empty, pairwise disjoint coalitions whose sizes
\* sum to num_fps: every FP is in exactly one block.
C28_EvaluatedPartitionsPartitionTheFPs ==
    [][TriggerFires
        => \A k \in 1..Len(trigger'.log) :
              LET blocks == trigger'.log[k].coalitions
              IN  /\ \A c \in blocks : PlayersOf(c) # {}
                  /\ \A c, d \in blocks : c # d => PlayersOf(c) \cap PlayersOf(d) = {}
                  /\ SumOfSizes(blocks) = scen.num_fps
                  /\ \A fp \in FPs :
                         Cardinality({c \in blocks : fp \in PlayersOf(c)}) = 1]_vars

\* the selector went through the five partitions of three FPs
C28_Witness ==
    /\ Completed
    /\ scen.num_fps = 3
    /\ Len(trigger.log) = 5
    /\ \E k \in 1..Len(trigger.log) : Cardinality(trigger.log[k].coalitions) = 2

HostsOf(sol, j) == {i \in DOMAIN sol.fn_vm_allocations : sol.fn_vm_allocations[i][j]}

\* the sum of a requirement over the VMs a solution places on an FN
Load(sol, specs, i) ==
    IloSum([j \in 0..(alloc_problem.nvms - 1) |->
               IF sol.fn_vm_allocations[i][j] THEN specs[j][i] ELSE 0], alloc_problem.nvms)

\* C30: in an allocation returned with solved = true every VM is placed on
\* at most one FN, an FN whose returned power state is off hosts no VM, and
\* on every FN the CPU requirements and the RAM requirements of the VMs
\* placed on it each sum to at most 1 (ReqDen units).
C30_SolvedAllocationRespectsTheConstraints ==
    (alloc_pc = "returned" /\ alloc_solution.solved)
        => /\ \A j \in 0..(alloc_problem.nvms - 1) :
                 Cardinality(HostsOf(alloc_solution, j)) <= 1
           /\ \A i \in 0..(alloc_problem.nfns - 1) :
                 /\ ~alloc_solution.fn_power_states[i]
                        => \A j \in 0..(alloc_problem.nvms - 1) :
                              ~alloc_solution.fn_vm_allocations[i][j]
                 /\ Load(alloc_solution, alloc_problem.vm_cpu_specs, i) <= ReqDen
                 /\ Load(alloc_solution, alloc_problem.vm_ram_specs, i) <= ReqDen

\* two VMs share one FN and fill its RAM, the other FN is off
C30_Witness ==
    /\ alloc_pc = "returned"
    /\ alloc_solution.solved
    /\ alloc_problem.nfns = 2
    /\ alloc_problem.nvms = 2
    /\ HostsOf(alloc_solution, 0) = {1}
    /\ HostsOf(alloc_solution, 1) = {1}
    /\ Load(alloc_solution, alloc_problem.vm_ram_specs, 1) = ReqDen
    /\ ~alloc_solution.fn_power_states[0]

\* the values of x and y a returned solution was filled from
ReturnedValues ==
    [x |-> [i \in 0..(alloc_problem.nfns - 1) |->
               IF alloc_solution.fn_power_states[i] THEN 1 ELSE 0],
     y |-> [i \in 0..(alloc_problem.nfns - 1) |->
               [j \in 0..(alloc_problem.nvms - 1) |->
                   IF alloc_solution.fn_vm_allocations[i][j] THEN 1 ELSE 0]]]

\* C31: the flags of the result follow the outcome of the solver: an
\* infeasible, unbounded or timed-out (no solution found) outcome returns
\* solved = false with objective NaN; a feasible outcome that is not proven
\* optimal returns solved = true, optimal = false and the objective of the
\* solution found.
C31_FlagsFollowTheSolverOutcome ==
    alloc_pc = "returned"
        => /\ alloc_status \in {"Infeasible", "Unbounded", "InfeasibleOrUnbounded", "Unknown"}
                => /\ ~alloc_solution.solved
                   /\ alloc_solution.objective_value = NaN
           /\ alloc_status = Feasible
                => /\ alloc_solution.solved
                   /\ ~alloc_solution.optimal
                   /\ alloc_solution.objective_value = Objective(alloc_problem, ReturnedValues)

\* a feasible outcome with a solution that is not a minimum
C31_Witness ==
    /\ alloc_pc = "returned"
    /\ alloc_status = Feasible
    /\ ReturnedValues \notin IloCPOptima(alloc_problem)
    /\ alloc_solution.objective_value # IloInfinity

(***************************************************************************)
(* The assignment that powers every FN off.                                *)
(***************************************************************************)
AllOff(p) ==
    [x |-> [i \in 0..(p.nfns - 1) |-> 0],
     y |-> [i \in 0..(p.nfns - 1) |-> [j \in 0..(p.nvms - 1) |-> 0]]]

\* the cost of switching off the FNs that are on when the optimizer is called
SwitchOffCost(p) ==
    Num(ReqDen * p.asleep_cost * Cardinality({i \in 0..(p.nfns - 1) : p.fn_power_states[i]}))

\* C33, as the specification states it: for every optimizer input the
\* assignment with every FN off and no VM placed is feasible and its
\* objective is the switch-off cost of the FNs that started on.
C33_AllOffCostsTheSwitchOffOnly ==
    /\ AllOff(alloc_problem) \in IloCPSolutions(alloc_problem)
    /\ Objective(alloc_problem, AllOff(alloc_problem)) = SwitchOffCost(alloc_problem)

\* C33, amended: the assignment with every FN off and no VM placed is
\* always feasible; its objective is the switch-off cost of the FNs that
\* started on only when the problem has no VM to place, and with any VM to
\* place it is infinite, every service being charged the penalty of the
\* infinite delay of zero VMs.  A call that returns this assignment returns
\* this objective.
C33_AllOffIsFeasibleAndChargedForUnservedServices ==
    LET objective == IF alloc_problem.nvms = 0 THEN SwitchOffCost(alloc_problem)
                     ELSE IloInfinity
    IN  /\ AllOff(alloc_problem) \in IloCPSolutions(alloc_problem)
        /\ Objective(alloc_problem, AllOff(alloc_problem)) = objective
        /\ (alloc_pc = "returned" /\ alloc_solution.solved
            /\ ReturnedValues = AllOff(alloc_problem))
               => alloc_solution.objective_value = objective

\* the call returned all off for a problem with two VMs and an FN to switch off
C33_Witness ==
    /\ alloc_pc = "returned"
    /\ alloc_solution.solved
    /\ ReturnedValues = AllOff(alloc_problem)
    /\ alloc_problem.nvms = 2
    /\ alloc_problem.asleep_cost > 0
    /\ \E i \in 0..(alloc_problem.nfns - 1) : alloc_problem.fn_power_states[i]
    /\ alloc_solution.objective_value = IloInfinity

(***************************************************************************)
(* The value of a coalition.                                               *)
(***************************************************************************)
\* the sum of f over a finite set
RECURSIVE SumOver(_, _)
SumOver(S, f) ==
    IF S = {} THEN 0
    ELSE LET e == CHOOSE d \in S : TRUE
         IN  f[e] + SumOver(S \ {e}, f)

\* the revenues of the services of an FP, by the scenario's tables
FpRevenue(fp) ==
    SumOver(0..(scen.num_svc_categories - 1),
            [k \in 0..(scen.num_svc_categories - 1) |->
                scen.fp_num_svcs[fp][k] * scen.fp_svc_revenues[fp][k]])

\* (revenue - cost) * (stop - start) of a coalition
ValueOf(cid, objective_value, start, stop) ==
    LET S       == PlayersOf(cid)
        revenue == Fixed(SumOver(S, [fp \in S |-> FpRevenue(fp)]))
        cost    == IF Cardinality(S) > 1
                   THEN Sub(objective_value,
                            Fixed(SumOver(S, [fp \in S |-> scen.fp_coalition_costs[fp]])))
                   ELSE objective_value
    IN  Mul(stop - start, Sub(revenue, cost))

\* C32: for every coalition S whose optimizer result is solved the value
\* stored is (revenue - cost) * (stop - start), where revenue sums the
\* revenues of S's services and cost is the optimizer's objective minus,
\* only when |S| > 1, the coalition costs of S's members.
C32_StoredValueIsProfitOverTheInterval ==
    [][TriggerFires
        => \A cid \in DOMAIN trigger'.visited :
              trigger'.visited[cid].vm_allocation.solved
                 => LET v == ValueOf(cid, trigger'.visited[cid].vm_allocation.objective_value,
                                     trigger'.start_time, trigger'.stop_time)
                    IN  /\ trigger'.visited[cid].value = v
                        /\ trigger'.game[cid] = v]_vars

\* a trigger valued a solved pair with revenues, coalition costs and a
\* positive objective
C32_Witness ==
    /\ trigger.fired
    /\ \E cid \in DOMAIN trigger.visited :
          /\ Cardinality(PlayersOf(cid)) = 2
          /\ trigger.visited[cid].vm_allocation.solved
          /\ trigger.visited[cid].vm_allocation.objective_value # Zero
          /\ trigger.visited[cid].value # Zero
    /\ scen.fp_coalition_costs[0] > 0
    /\ scen.fp_svc_revenues[0][0] > 0

(***************************************************************************)
(* The workload of a run.                                                  *)
(***************************************************************************)
\* the (duration, rate) pair at index k mod n of the list of a category
StepOf(svc_cat, k) ==
    LET steps == scen.svc_workloads[svc_cat]
    IN  steps[(k % Len(steps)) + 1]

\* C34: the k-th call (k = 0, 1, 2, ...) to a workload generator built from
\* a list of n >= 1 (duration, rate) pairs returns the pair at index
\* k mod n, and no call draws from the RNG.
C34_GeneratorCyclesThroughItsList ==
    /\ \A svc_cat \in DOMAIN wkl_returned :
          /\ \A k \in 0..(Len(wkl_returned[svc_cat]) - 1) :
                wkl_returned[svc_cat][k + 1] = StepOf(svc_cat, k)
          /\ wkl_next_idx[svc_cat]
                = Len(wkl_returned[svc_cat]) % Len(scen.svc_workloads[svc_cat])
    /\ rng = 0

\* a generator of two steps was called five times
C34_Witness ==
    /\ Len(scen.svc_workloads[0]) = 2
    /\ Len(wkl_returned[0]) = 5

(***************************************************************************)
(* A run with a single FP.                                                 *)
(***************************************************************************)
\* C35: with a single FP, a formation interval equal to the maximum
\* replication duration and one replication, the trigger fires once, the
\* only partition {{0}} is returned as Nash-stable and the stats row of the
\* trigger reports the FP's coalition profit equal to its alone profit.
C35_SingleFpRunWritesOneRowOfEqualProfits ==
    (/\ pc = "done"
     /\ scen.num_fps = 1
     /\ opts.coalition_formation_interval = opts.sim_max_replication_duration
     /\ opts.sim_max_num_replications = 1
     /\ solver[1].solved)
        => /\ trigger.fired
           /\ ~trigger.threw
           /\ Len(trigger.best_partitions) = 1
           /\ trigger.best_partitions[1].coalitions = {MakeCoalitionId({0})}
           /\ trigger.stats_row # << >>
           /\ trigger.stats_row[4][0] # << >>
           /\ \A k \in 1..Len(trigger.stats_row[4][0]) :
                 trigger.stats_row[4][0][k] = trigger.stats_row[5][0]

(***************************************************************************)
(* The workload of a service.                                              *)
(***************************************************************************)
\* C36: every service follows the full cyclic schedule of its category:
\* within a replication the k-th burst of a service uses the (k mod n)-th
\* (duration, rate) pair of the list of its category, however many services
\* belong to the category.  Stated on the first replication, which starts
\* with generators just built.
C36_EveryServiceFollowsTheFullSchedule ==
    num_rep = 1
        => \A svc \in DOMAIN burst_history :
              \A k \in 0..(Len(burst_history[svc]) - 1) :
                 LET burst == burst_history[svc][k + 1]
                 IN  <<burst[2] - burst[1], burst[3]>> = StepOf(svc_categories[svc], k)

\* the position of a service among the services of its category
RankInCategory(svc) ==
    Cardinality({o \in 1..svc : svc_categories[o] = svc_categories[svc]})

\* C37: every replication starts its workload from the beginning of the
\* schedule: the first burst scheduled for a service in a replication
\* r > 1 is the (duration, rate) pair of its first burst in replication 1.
C37_EveryReplicationStartsWithTheSameBursts ==
    [][(ReplicationStarts /\ num_rep' > 1)
        => \A e \in EventsOf(evt_queue', arrival_burst_start_event) :
              <<e.state.duration, e.state.arrival_rate>>
                  = wkl_returned[svc_categories[e.state.service]][RankInCategory(e.state.service)]]_vars

(***************************************************************************)
(* The length of a replication.                                            *)
(***************************************************************************)
\* the events a replication schedules when every burst and every formation
\* interval lasts at least one unit of time: the first burst of every
\* service and the first trigger, then one event for each event fired, and
\* in a unit of time a service starts and stops one burst at most and one
\* trigger fires at most
EventsOfReplication == (NumSvcs + 1) + (2 * NumSvcs + 1) * max_rep_len

\* C38: every replication terminates: for any formation interval >= 0,
\* positive burst durations and a finite positive maximum duration, a
\* replication processes finitely many events before simulated time reaches
\* the maximum, no more than the time it lasts allows.
C38_ReplicationProcessesFinitelyManyEvents ==
    pc = "rep_loop" => num_scheduled <= EventsOfReplication

\* C39: no event whose fire time is greater than the maximum duration of
\* the replication is ever processed, so no trigger is evaluated for an
\* interval that ends after the maximum duration.
C39_NoEventFiresAfterTheMaximumDuration ==
    /\ last_event.fire_time <= max_rep_len
    /\ trigger.fired => trigger.stop_time <= max_rep_len

====
